---- MODULE Spec2Model ----
(***************************************************************************)
(* Model of the myshapes generator: the sync command (syncDocuments), the  *)
(* local record store it reads and writes, and the bulk-sync batch loop.   *)
(*                                                                         *)
(* JSON objects are functions from key strings to values; a key whose      *)
(* value is undefined is simply not in the domain, which is also what      *)
(* JSON.stringify leaves of it.  Titles and file names are sequences of    *)
(* one-character strings so that the slug is computed character by         *)
(* character.  A label entry is tagged with its JavaScript type because    *)
(* the code branches on typeof.                                            *)
(***************************************************************************)
EXTENDS Integers, Sequences, FiniteSets, TLC

VARIABLES
    files,      \* src/content/documents: file name (slug) -> file content
    images,     \* src/images: documentId -> bytes of <documentId>-600x340.png
    pdfs,       \* public/pdf: the file names (slugs) that have a generated PDF
    last,       \* the most recent command: what it was given and how it ended
    bulk        \* the bulk-sync process: position, candidates, progress

vars == <<files, images, pdfs, last, bulk>>

(***************************************************************************)
(* JavaScript / JSON helpers                                               *)
(***************************************************************************)
EmptyObj == [k \in {} |-> ""]

Has(o, k) == k \in DOMAIN o

\* o without the keys in ks (Object.entries(o).filter(([key]) => !ks.includes(key)))
Omit(o, ks) == [k \in (DOMAIN o) \ ks |-> o[k]]

\* { k: o[k] || undefined } for a string-valued key: "" is falsy
TruthyProp(o, k) == IF Has(o, k) /\ o[k] # "" THEN (k :> o[k]) ELSE EmptyObj

\* a label entry as JSON holds it: a string, or an object with a name
JStr(s) == [type |-> "string", value |-> s]
JLabel(id, name) == [type |-> "object", id |-> id, name |-> name]

\* Boolean(entry): the empty string is falsy, objects are truthy
Truthy(e) == IF e.type = "string" THEN e.value # "" ELSE TRUE

RECURSIVE SelectTruthy(_)
SelectTruthy(s) ==
    IF s = <<>> THEN <<>>
    ELSE IF Truthy(Head(s)) THEN <<Head(s)>> \o SelectTruthy(Tail(s))
         ELSE SelectTruthy(Tail(s))

InSeq(x, s) == \E i \in 1..Len(s) : s[i] = x

\* [...new Set(s)]: insertion order of first occurrence
RECURSIVE Dedup(_, _)
Dedup(s, acc) ==
    IF s = <<>> THEN acc
    ELSE Dedup(Tail(s), IF InSeq(Head(s), acc) THEN acc ELSE Append(acc, Head(s)))

(***************************************************************************)
(* The slug: title.toLowerCase().replace(/\s+/g,'-').replace(/[^a-z0-9-]/g,'') *)
(***************************************************************************)
toLowerCase(c) ==
    CASE c = "A" -> "a"
      [] c = "B" -> "b"
      [] c = "L" -> "l"
      [] OTHER -> c

IsSpace(c) == c \in {" ", "\t"}

SafeChars ==
    {"a","b","c","d","e","f","g","h","i","j","k","l","m","n","o","p","q","r",
     "s","t","u","v","w","x","y","z","0","1","2","3","4","5","6","7","8","9","-"}

RECURSIVE LowerAll(_)
LowerAll(t) == IF t = <<>> THEN <<>> ELSE <<toLowerCase(Head(t))>> \o LowerAll(Tail(t))

\* replace(/\s+/g, '-'): every maximal run of whitespace becomes one hyphen
RECURSIVE ReplaceSpaceRuns(_)
ReplaceSpaceRuns(t) ==
    IF t = <<>> THEN <<>>
    ELSE IF IsSpace(Head(t))
         THEN IF Len(t) > 1 /\ IsSpace(t[2])
              THEN ReplaceSpaceRuns(Tail(t))
              ELSE <<"-">> \o ReplaceSpaceRuns(Tail(t))
         ELSE <<Head(t)>> \o ReplaceSpaceRuns(Tail(t))

\* replace(/[^a-z0-9-]/g, '')
RECURSIVE StripUnsafe(_)
StripUnsafe(t) ==
    IF t = <<>> THEN <<>>
    ELSE IF Head(t) \in SafeChars THEN <<Head(t)>> \o StripUnsafe(Tail(t))
         ELSE StripUnsafe(Tail(t))

\* sync.ts computes the record's file name inline
SyncFilename(name) == StripUnsafe(ReplaceSpaceRuns(LowerAll(name)))

\* document-utils.ts
generateFilenameFromTitle(title) == StripUnsafe(ReplaceSpaceRuns(LowerAll(title)))

(***************************************************************************)
(* Remote responses.  A call either throws (with the HTTP status) or       *)
(* returns its response body.                                              *)
(***************************************************************************)
Throws(status) == [status |-> status, ok |-> FALSE]
Returns(body) == [ok |-> TRUE, data |-> body]

\* JSON.stringify(new Date(x)): the ISO form, milliseconds and "Z"
toISOString(x) ==
    CASE x = "2024-01-02T03:04:05.000+00:00" -> "2024-01-02T03:04:05.000Z"
      [] x = "2024-01-02T03:04:05.000Z" -> "2024-01-02T03:04:05.000Z"
      [] x = "2023-05-06T07:08:09.123+00:00" -> "2023-05-06T07:08:09.123Z"

\* `Version ${v.id}`
VersionFallbackName(id) ==
    CASE id = "v0" -> "Version v0"
      [] id = "v1" -> "Version v1"
      [] id = "v2" -> "Version v2"

\* parseInt(size.split('x')[0]) and parseInt(size.split('x')[1])
ParseWidth(size) == CASE size = "300x170" -> 300 [] size = "600x340" -> 600
ParseHeight(size) == CASE size = "300x170" -> 170 [] size = "600x340" -> 340

\* `https://cad.onshape.com/documents/${options.document}`
OnshapeUrl(documentId) == <<"https://cad.onshape.com/documents/", documentId>>

\* { name: process.env.AUTHOR_NAME || 'Unknown', email: ..., website: ... }
DefaultAuthor == [name |-> "Unknown", email |-> "", website |-> ""]

(***************************************************************************)
(* onshape-client: getDocumentThumbnails flattens the response's sizes     *)
(***************************************************************************)
ThumbnailInfo(sizeInfo) ==
    [size |-> sizeInfo.size,
     url |-> sizeInfo.href,
     width |-> ParseWidth(sizeInfo.size),
     height |-> ParseHeight(sizeInfo.size),
     mediaType |-> sizeInfo.mediaType]

getDocumentThumbnails(body) ==
    IF ~Has(body, "sizes") THEN <<>>
    ELSE [i \in 1..Len(body.sizes) |-> ThumbnailInfo(body.sizes[i])]

(***************************************************************************)
(* syncDocuments, piece by piece                                           *)
(***************************************************************************)
\* workspaces.find(w => (w.name === "Main" || w.isMain) && w.type === "workspace")
IsMainWorkspace(w) ==
    /\ (Has(w, "name") /\ w.name = "Main") \/ (Has(w, "isMain") /\ w.isMain)
    /\ Has(w, "type") /\ w.type = "workspace"

\* { mainWorkspaceId } as JSON.stringify keeps it: absent when undefined
mainWorkspaceId(resp) ==
    IF ~resp.ok THEN EmptyObj
    ELSE LET ws == resp.data
             hits == {i \in 1..Len(ws) : IsMainWorkspace(ws[i])}
         IN IF hits = {} THEN EmptyObj
            ELSE LET first == CHOOSE i \in hits : \A j \in hits : i <= j
                 IN ("mainWorkspaceId" :> ws[first].id)

NormalizeVersion(v) ==
    [id |-> v.id,
     name |-> IF Has(v, "name") /\ v.name # "" THEN v.name ELSE VersionFallbackName(v.id),
     description |-> IF Has(v, "description") THEN v.description ELSE "",
     createdAt |-> toISOString(v.createdAt),
     microversion |-> IF Has(v, "microversion") THEN v.microversion ELSE ""]

\* variant: the filter on the name is missing
KeepStart(vs) == vs

RECURSIVE DropStart(_)
DropStart(vs) ==
    IF vs = <<>> THEN <<>>
    ELSE IF Head(vs).name # "Start" THEN <<Head(vs)>> \o DropStart(Tail(vs))
         ELSE DropStart(Tail(vs))

versions(resp) ==
    IF ~resp.ok THEN <<>>
    ELSE DropStart([i \in 1..Len(resp.data) |-> NormalizeVersion(resp.data[i])])

thumbnails(resp) == IF ~resp.ok THEN <<>> ELSE getDocumentThumbnails(resp.data)

\* thumbnails.find(t => t.size === '600x340')
HasLargeThumbnail(ts) == \E i \in 1..Len(ts) : ts[i].size = "600x340"

\* label => label.name, then filter(Boolean): a missing name is dropped like ""
LabelName(label) == IF Has(label, "name") THEN JStr(label.name) ELSE JStr("")

apiLabelNames(document) ==
    IF ~Has(document, "documentLabels") THEN <<>>
    ELSE SelectTruthy([i \in 1..Len(document.documentLabels) |->
                          LabelName(document.documentLabels[i])])

\* variant: stored label objects are kept as they are
NormalizeLabelKeepObject(label) == label

\* typeof label === 'string' ? label : label.name || label
NormalizeLabel(label) ==
    IF label.type = "string" THEN label
    ELSE IF Has(label, "name") /\ label.name # "" THEN JStr(label.name) ELSE label

\* existingData.userData || {}
existingUserData(existingData) ==
    IF Has(existingData, "userData") THEN existingData.userData ELSE EmptyObj

userLabels(existingData) ==
    LET ud == existingUserData(existingData)
        stored == IF Has(ud, "labels") THEN ud.labels ELSE <<>>
    IN SelectTruthy([i \in 1..Len(stored) |-> NormalizeLabel(stored[i])])

\* variant: the labels already in the record are merged in as well
allLabelsKeepStored(document, existingData) ==
    Dedup(apiLabelNames(document) \o userLabels(existingData)
          \o (IF Has(existingData, "labels") THEN existingData.labels ELSE <<>>), <<>>)

allLabels(document, existingData) ==
    Dedup(apiLabelNames(document) \o userLabels(existingData), <<>>)

apiData(documentId, snapshot) ==
    LET document == snapshot.document.data
    IN  [title |-> document.name,
         documentId |-> documentId,
         description |-> IF Has(document, "description") THEN document.description ELSE "",
         createdAt |-> toISOString(document.createdAt),
         versions |-> versions(snapshot.versions),
         thumbnails |-> thumbnails(snapshot.thumbnails),
         onshapeUrl |-> OnshapeUrl(documentId)]
        @@ mainWorkspaceId(snapshot.workspaces)

\* variant: one more key is treated as recognised and so not passed through
UserDataKnownKeysWider ==
    {"workspaceId", "elementId", "pdfElementId", "author", "labels", "description", "changelog",
     "customNote"}

UserDataKnownKeys ==
    {"workspaceId", "elementId", "pdfElementId", "author", "labels", "description", "changelog"}

\* variant: one more top-level key is treated as recognised and so not migrated
RootKnownKeysWider ==
    {"documentId", "title", "description", "createdAt", "versions", "thumbnails", "labels",
     "workspaceId", "elementId", "changelog", "author", "userData", "notes"}

RootKnownKeys ==
    {"documentId", "title", "description", "createdAt", "versions", "thumbnails", "labels",
     "workspaceId", "elementId", "changelog", "author", "userData"}

\* existingData.userData?.k || existingData.k || undefined
UserOrRootProp(existingData, k) ==
    LET fromUser == TruthyProp(existingUserData(existingData), k)
    IN IF fromUser # EmptyObj THEN fromUser ELSE TruthyProp(existingData, k)

\* existingData.userData?.author || existingData.author || { ...defaults }
authorProp(existingData) ==
    LET ud == existingUserData(existingData)
    IN IF Has(ud, "author") THEN ("author" :> ud.author)
       ELSE IF Has(existingData, "author") THEN ("author" :> existingData.author)
       ELSE ("author" :> DefaultAuthor)

\* variant: the pdfElementId line is missing
userDataWithoutPdfElementId(existingData) ==
    Omit(existingData, RootKnownKeys)
    @@ Omit(existingUserData(existingData), UserDataKnownKeys)
    @@ ("labels" :> userLabels(existingData))
    @@ authorProp(existingData)
    @@ UserOrRootProp(existingData, "elementId")
    @@ UserOrRootProp(existingData, "workspaceId")

\* the object literal: later entries override earlier ones
userData(existingData) ==
    Omit(existingData, RootKnownKeys)
    @@ Omit(existingUserData(existingData), UserDataKnownKeys)
    @@ ("labels" :> userLabels(existingData))
    @@ authorProp(existingData)
    @@ TruthyProp(existingUserData(existingData), "pdfElementId")
    @@ UserOrRootProp(existingData, "elementId")
    @@ UserOrRootProp(existingData, "workspaceId")

\* variant: a description already in the record is kept
documentDataKeepDescription(documentId, snapshot, existingData) ==
    ("userData" :> userData(existingData))
    @@ ("labels" :> allLabels(snapshot.document.data, existingData))
    @@ TruthyProp(existingData, "description")
    @@ apiData(documentId, snapshot)

documentData(documentId, snapshot, existingData) ==
    ("userData" :> userData(existingData))
    @@ ("labels" :> allLabels(snapshot.document.data, existingData))
    @@ apiData(documentId, snapshot)

(***************************************************************************)
(* Bounded inputs: what the remote service may answer                      *)
(***************************************************************************)
Docs == {"d1", "d2", "d3"}

TitleOf(d) ==
    CASE d = "d1" -> <<"A", " ", " ", "b", "!">>
      [] d = "d2" -> <<"L", "1">>
      [] d = "d3" -> <<"a", "-", "b">>

FileNames == {SyncFilename(TitleOf(d)) : d \in Docs}

RemoteCreatedAt == "2024-01-02T03:04:05.000+00:00"

NoLabels == EmptyObj
MeshLabel == "documentLabels" :> <<[id |-> "L1", name |-> "mesh"]>>
MeshFavLabels ==
    "documentLabels" :> <<[id |-> "L1", name |-> "mesh"], [id |-> "L2", name |-> "fav"]>>

RemoteLabelLists == {NoLabels, MeshLabel, MeshFavLabels}

RemoteDocument(d, desc, labels) ==
    [name |-> TitleOf(d), createdAt |-> RemoteCreatedAt] @@ desc @@ labels

WithDescription == "description" :> "A box"

NoMainWorkspace == Returns(<<[type |-> "version", id |-> "w9", name |-> "Main"]>>)
MainWorkspace ==
    Returns(<<[type |-> "workspace", id |-> "w9", name |-> "Dev"],
              [type |-> "workspace", id |-> "w1", name |-> "Main"]>>)
FlaggedWorkspace ==
    Returns(<<[type |-> "workspace", id |-> "w2", name |-> "Trunk", isMain |-> TRUE]>>)

RemoteWorkspaces == {Throws(500), NoMainWorkspace, MainWorkspace, FlaggedWorkspace}

TwoVersions ==
    Returns(<<[id |-> "v0", name |-> "Start", description |-> "",
               createdAt |-> "2024-01-02T03:04:05.000+00:00", microversion |-> "m0"],
              [id |-> "v1", name |-> "V1", createdAt |-> "2023-05-06T07:08:09.123+00:00",
               microversion |-> "m1", parent |-> "v0"]>>)

SmallSize == [size |-> "300x170", href |-> "u300", mediaType |-> "image/png"]
LargeSize == [size |-> "600x340", href |-> "u600", mediaType |-> "image/png"]

\* the thumbnail listing together with the outcome of downloading the image
ThumbnailsFail == [thumbnails |-> Throws(500), image |-> Throws(500)]
ThumbnailsSmall == [thumbnails |-> Returns([sizes |-> <<SmallSize>>]), image |-> Throws(500)]
ThumbnailsLarge ==
    [thumbnails |-> Returns([sizes |-> <<SmallSize, LargeSize>>]), image |-> Returns("png-new")]
ThumbnailsLargeNoImage ==
    [thumbnails |-> Returns([sizes |-> <<SmallSize, LargeSize>>]), image |-> Throws(500)]

Snapshot(doc, ws, vs, th) ==
    [versions |-> vs, thumbnails |-> th.thumbnails, document |-> doc,
     workspaces |-> ws, image |-> th.image]

\* every label list against every workspace answer, the other fetches succeeding
LabelSnapshots(d) ==
    {Snapshot(Returns(RemoteDocument(d, WithDescription, labels)), ws, TwoVersions, ThumbnailsLarge) :
        labels \in RemoteLabelLists, ws \in RemoteWorkspaces}

\* every combination of the three guarded fetches throwing or not
FailureSnapshots(d) ==
    {Snapshot(Returns(RemoteDocument(d, WithDescription, MeshLabel)), ws, vs, th) :
        ws \in {Throws(500), MainWorkspace}, vs \in {Throws(500), TwoVersions},
        th \in {ThumbnailsFail, ThumbnailsLarge}}

\* no description, no preview size, preview download failing
OtherSnapshots(d) ==
    {Snapshot(Returns(RemoteDocument(d, EmptyObj, MeshLabel)), MainWorkspace, TwoVersions, th) :
        th \in {ThumbnailsSmall, ThumbnailsLargeNoImage}}

\* the answers to a sync of document d whose metadata fetch succeeds
Snapshots(d) == LabelSnapshots(d) \cup FailureSnapshots(d) \cup OtherSnapshots(d)

\* a sync whose metadata fetch throws; nothing else is asked
FailedSnapshot(status) ==
    Snapshot(Throws(status), Throws(status), Throws(status),
             [thumbnails |-> Throws(status), image |-> Throws(status)])

(***************************************************************************)
(* The record store and the sync command                                   *)
(***************************************************************************)
AbsentFile == [kind |-> "absent"]
CorruptFile == [kind |-> "corrupt"]
JsonFile(data) == [data |-> data, kind |-> "json"]

\* existsSync + readFileSync + JSON.parse, {} when missing or unparseable
existingData(fs, filename) ==
    IF fs[filename].kind = "json" THEN fs[filename].data ELSE EmptyObj

\* variant: the workspaces are requested together with the metadata
SyncCallsEager(snapshot) ==
    <<"getDocument", "getWorkspaces">>
    \o (IF ~snapshot.document.ok THEN <<>>
        ELSE <<"getDocumentVersions", "getDocumentThumbnails">>
             \o (IF HasLargeThumbnail(thumbnails(snapshot.thumbnails))
                 THEN <<"downloadThumbnail">> ELSE <<>>))

\* the remote calls a sync makes, in order
SyncCalls(snapshot) ==
    IF ~snapshot.document.ok THEN <<"getDocument">>
    ELSE <<"getDocument", "getWorkspaces", "getDocumentVersions", "getDocumentThumbnails">>
         \o (IF HasLargeThumbnail(thumbnails(snapshot.thumbnails))
             THEN <<"downloadThumbnail">> ELSE <<>>)

\* downloadThumbnail: the bytes are written only when the download succeeds
downloadThumbnail(imgs, documentId, snapshot) ==
    IF HasLargeThumbnail(thumbnails(snapshot.thumbnails)) /\ snapshot.image.ok
    THEN [imgs EXCEPT ![documentId] = snapshot.image.data]
    ELSE imgs

\* variant: the versions fetch is not guarded, its failure ends the sync
syncDocumentsUnguarded(fs, imgs, documentId, snapshot) ==
    IF ~snapshot.document.ok \/ ~snapshot.versions.ok
    THEN [files |-> fs, images |-> imgs, calls |-> SyncCalls(snapshot),
          found |-> "unread", wrote |-> FALSE, exit |-> 1]
    ELSE LET filename == SyncFilename(snapshot.document.data.name)
         IN [files |-> [fs EXCEPT ![filename] =
                          JsonFile(documentData(documentId, snapshot, existingData(fs, filename)))],
             images |-> downloadThumbnail(imgs, documentId, snapshot),
             calls |-> SyncCalls(snapshot),
             found |-> fs[filename].kind,
             wrote |-> TRUE,
             exit |-> 0]

\* variant: a preview download that fails is not caught and ends the sync
syncDocumentsDownloadFatal(fs, imgs, documentId, snapshot) ==
    IF ~snapshot.document.ok
       \/ (HasLargeThumbnail(thumbnails(snapshot.thumbnails)) /\ ~snapshot.image.ok)
    THEN [files |-> fs, images |-> imgs, calls |-> SyncCalls(snapshot),
          found |-> "unread", wrote |-> FALSE, exit |-> 1]
    ELSE LET filename == SyncFilename(snapshot.document.data.name)
         IN [files |-> [fs EXCEPT ![filename] =
                          JsonFile(documentData(documentId, snapshot, existingData(fs, filename)))],
             images |-> downloadThumbnail(imgs, documentId, snapshot),
             calls |-> SyncCalls(snapshot),
             found |-> fs[filename].kind,
             wrote |-> TRUE,
             exit |-> 0]

\* variant: a record file that does not parse is not caught and ends the sync
syncDocumentsParseFatal(fs, imgs, documentId, snapshot) ==
    IF ~snapshot.document.ok
       \/ fs[SyncFilename(snapshot.document.data.name)].kind = "corrupt"
    THEN [files |-> fs, images |-> imgs, calls |-> SyncCalls(snapshot),
          found |-> "unread", wrote |-> FALSE, exit |-> 1]
    ELSE LET filename == SyncFilename(snapshot.document.data.name)
         IN [files |-> [fs EXCEPT ![filename] =
                          JsonFile(documentData(documentId, snapshot, existingData(fs, filename)))],
             images |-> downloadThumbnail(imgs, documentId, snapshot),
             calls |-> SyncCalls(snapshot),
             found |-> fs[filename].kind,
             wrote |-> TRUE,
             exit |-> 0]

\* the whole of syncDocuments: what it leaves on disk and how the process ends
syncDocuments(fs, imgs, documentId, snapshot) ==
    IF ~snapshot.document.ok
    THEN [files |-> fs, images |-> imgs, calls |-> SyncCalls(snapshot),
          found |-> "unread", wrote |-> FALSE, exit |-> 1]
    ELSE LET filename == SyncFilename(snapshot.document.data.name)
         IN [files |-> [fs EXCEPT ![filename] =
                          JsonFile(documentData(documentId, snapshot, existingData(fs, filename)))],
             images |-> downloadThumbnail(imgs, documentId, snapshot),
             calls |-> SyncCalls(snapshot),
             found |-> fs[filename].kind,
             wrote |-> TRUE,
             exit |-> 0]

(***************************************************************************)
(* Bounded inputs: the record a sync may find on disk.  A record is either *)
(* one an earlier sync wrote (with onshapeUrl and mainWorkspaceId), or an  *)
(* older hand-written one; the user may have edited any part of it.        *)
(***************************************************************************)
Ann == [name |-> "Ann", email |-> "ann@example.org", website |-> ""]
Bob == [name |-> "Bob", email |-> "", website |-> "bob.example.org"]

PriorApiFields(d) ==
    [title |-> <<"e", "d", "i", "t">>,
     documentId |-> d,
     description |-> "edited by hand",
     createdAt |-> "2020-01-01T00:00:00.000Z",
     versions |-> <<[id |-> "v9", name |-> "Start", description |-> "kept", 
                     createdAt |-> "2020-01-01T00:00:00.000Z", microversion |-> "m9"]>>,
     thumbnails |-> <<[size |-> "70x40", url |-> "u70", width |-> 70, height |-> 40,
                       mediaType |-> "image/png"]>>,
     labels |-> <<JStr("stale"), JStr("fav")>>]

PriorSynced(d) ==
    {EmptyObj,
     ("onshapeUrl" :> OnshapeUrl(d)) @@ ("mainWorkspaceId" :> "w0")}

PriorLegacy ==
    {EmptyObj,
     "notes" :> "abc",
     [author |-> Bob, notes |-> "abc", changelog |-> "c1", workspaceId |-> "lw",
      elementId |-> "le", pdfElementId |-> "lp"]}

PriorUserLabels ==
    {EmptyObj,
     "labels" :> <<JStr("fav")>>,
     "labels" :> <<JLabel("L2", "fav"), JStr("mesh"), JStr("fav")>>}

PriorUserOwned ==
    {EmptyObj,
     [author |-> Ann, workspaceId |-> "uw", elementId |-> "ue", pdfElementId |-> "up"],
     [workspaceId |-> "", pdfElementId |-> ""]}

PriorUserCustom ==
    {EmptyObj,
     "customNote" :> "x",
     [description |-> "my text", notes |-> "mine", changelog |-> "c2", customNote |-> "x"]}

\* userData is absent when the user wrote none of its parts
PriorUserData(ul, uo, uc) ==
    IF ul = EmptyObj /\ uo = EmptyObj /\ uc = EmptyObj THEN EmptyObj
    ELSE ("userData" :> (ul @@ uo @@ uc))

PriorRecord(d, sy, lg, ul, uo, uc) ==
    PriorApiFields(d) @@ sy @@ lg @@ PriorUserData(ul, uo, uc)

\* every layout of the record against one label list, and every label list
\* against one layout
PriorRecords(d) ==
    {PriorRecord(d, sy, lg, "labels" :> <<JStr("fav")>>, uo, uc) :
        sy \in PriorSynced(d), lg \in PriorLegacy,
        uo \in PriorUserOwned, uc \in PriorUserCustom}
    \cup
    {PriorRecord(d, sy, EmptyObj, ul, EmptyObj, "customNote" :> "x") :
        sy \in PriorSynced(d), ul \in PriorUserLabels}
    \cup
    {PriorRecord(d, EmptyObj, lg, EmptyObj, EmptyObj, EmptyObj) : lg \in PriorLegacy}

PriorFiles(d) == {AbsentFile, CorruptFile} \cup {JsonFile(r) : r \in PriorRecords(d)}

NoImages == [d \in Docs |-> "none"]
NoFiles == [f \in FileNames |-> AbsentFile]
NoCommand == [cmd |-> "none"]
BulkIdle == [pc |-> "idle"]

(***************************************************************************)
(* Spec: the sync command run again and again on document d1               *)
(***************************************************************************)
SyncDoc == "d1"

Init ==
    /\ \E prior \in PriorFiles(SyncDoc) :
          files = [NoFiles EXCEPT ![SyncFilename(TitleOf(SyncDoc))] = prior]
    /\ images = [NoImages EXCEPT ![SyncDoc] = "png-old"]
    /\ pdfs = {}
    /\ last = NoCommand
    /\ bulk = BulkIdle

\* `sync -d <id>` from the command line
SyncCmd ==
    \E snapshot \in Snapshots(SyncDoc) \cup {FailedSnapshot(404), FailedSnapshot(401)} :
        LET r == syncDocuments(files, images, SyncDoc, snapshot)
        IN /\ files' = r.files
           /\ images' = r.images
           /\ last' = [document |-> SyncDoc, snapshot |-> snapshot, calls |-> r.calls,
                       found |-> r.found, wrote |-> r.wrote, exit |-> r.exit,
                       cmd |-> "sync"]
           /\ UNCHANGED <<pdfs, bulk>>

Next == SyncCmd

Spec == Init /\ [][Next]_vars

(***************************************************************************)
(* generatePDF: fetch the document, read the template, compile with typst  *)
(***************************************************************************)
GenerateOutcomes ==
    {[document |-> Returns("doc"), template |-> "found", typst |-> "ok"],
     [document |-> Throws(500), template |-> "found", typst |-> "ok"],
     [document |-> Returns("doc"), template |-> "ENOENT", typst |-> "ok"],
     [document |-> Returns("doc"), template |-> "found", typst |-> "fails"]}

\* output is the slug the PDF is written under; a thrown error ends the process
generatePDF(ps, output, outcome) ==
    IF ~outcome.document.ok THEN [pdfs |-> ps, exit |-> 1]
    ELSE IF outcome.template = "ENOENT" THEN [pdfs |-> ps, exit |-> 0]
    ELSE IF outcome.typst = "fails" THEN [pdfs |-> ps, exit |-> 1]
    ELSE [pdfs |-> ps \cup {output}, exit |-> 0]

(***************************************************************************)
(* bulkSync: list the candidates, then sync (and generate) one at a time   *)
(***************************************************************************)
MaxCandidates == 3

ListedDocument(d) == [id |-> d, name |-> TitleOf(d)]

\* the candidate lists the listing may return: distinct documents, any order
CandidateLists ==
    {<<>>} \cup
    UNION {{[i \in 1..n |-> ListedDocument(ids[i])] :
              ids \in {f \in [1..n -> Docs] : \A i, j \in 1..n : i # j => f[i] # f[j]}} :
           n \in 1..MaxCandidates}

BulkListings == {Throws(401), Throws(500)} \cup {Returns(l) : l \in CandidateLists}

GoodSnapshot(d) ==
    Snapshot(Returns(RemoteDocument(d, WithDescription, MeshLabel)),
             MainWorkspace, TwoVersions, ThumbnailsLarge)

NoVersionsSnapshot(d) ==
    Snapshot(Returns(RemoteDocument(d, WithDescription, MeshLabel)),
             MainWorkspace, Throws(500), ThumbnailsLarge)

BulkSnapshots(d) ==
    {GoodSnapshot(d), NoVersionsSnapshot(d), FailedSnapshot(404), FailedSnapshot(401)}

\* after the loop body of document bulk.index: the next document, or the end
Advance(b) ==
    IF b.index < Len(b.documents)
    THEN [b EXCEPT !.pc = "sync", !.index = b.index + 1]
    ELSE [b EXCEPT !.pc = "done"]

\* bulkSync up to the loop: a listing that throws ends the process,
\* an empty listing returns early
BulkStart ==
    /\ bulk.pc = "idle"
    /\ \E listing \in BulkListings, generatePdf \in BOOLEAN :
          bulk' = [pc |-> IF ~listing.ok THEN "exited"
                          ELSE IF listing.data = <<>> THEN "done" ELSE "sync",
                   index |-> 1,
                   documents |-> IF listing.ok THEN listing.data ELSE <<>>,
                   generatePdf |-> generatePdf,
                   attempted |-> <<>>,
                   completed |-> <<>>]
    /\ UNCHANGED <<files, images, pdfs, last>>

\* await syncDocuments({ document: doc.id, ... }); process.exit(1) inside
\* syncDocuments ends the whole batch process
BulkSyncDoc ==
    /\ bulk.pc = "sync"
    /\ LET doc == bulk.documents[bulk.index]
       IN \E snapshot \in BulkSnapshots(doc.id) :
            LET r == syncDocuments(files, images, doc.id, snapshot)
                b == [bulk EXCEPT !.attempted = Append(@, doc.id)]
            IN /\ files' = r.files
               /\ images' = r.images
               /\ last' = [document |-> doc.id, snapshot |-> snapshot, calls |-> r.calls,
                           found |-> r.found, wrote |-> r.wrote, exit |-> r.exit,
                           cmd |-> "sync"]
               /\ bulk' = IF r.exit # 0 THEN [b EXCEPT !.pc = "exited"]
                          ELSE IF b.generatePdf THEN [b EXCEPT !.pc = "generate"]
                          ELSE Advance([b EXCEPT !.completed = Append(@, doc.id)])
               /\ UNCHANGED pdfs

\* await generatePDF({ document: doc.id, template, output }); it too ends the
\* process when it fails
BulkGenerate ==
    /\ bulk.pc = "generate"
    /\ LET doc == bulk.documents[bulk.index]
       IN \E outcome \in GenerateOutcomes :
            LET r == generatePDF(pdfs, generateFilenameFromTitle(doc.name), outcome)
            IN /\ pdfs' = r.pdfs
               /\ last' = [document |-> doc.id, exit |-> r.exit, cmd |-> "generate"]
               /\ bulk' = IF r.exit # 0 THEN [bulk EXCEPT !.pc = "exited"]
                          ELSE Advance([bulk EXCEPT !.completed = Append(@, doc.id)])
               /\ UNCHANGED <<files, images>>

InitBulk ==
    /\ files = NoFiles
    /\ images = NoImages
    /\ pdfs = {}
    /\ last = NoCommand
    /\ bulk = BulkIdle

NextBulk == BulkStart \/ BulkSyncDoc \/ BulkGenerate

SpecBulk == InitBulk /\ [][NextBulk]_vars

(***************************************************************************)
(* onshape-client: the document listing.  The service lists the documents  *)
(* of a filter category (narrowed by the free-text query q when one is     *)
(* sent) page by page; a page that is not the last carries a next URL.     *)
(***************************************************************************)
DefaultLimit == 20
AllDocumentsLimit == 20

Min(a, b) == IF a <= b THEN a ELSE b

\* the offset and limit as the next URL spells them, and parseInt of them
UrlNumber(n) ==
    CASE n = 0 -> "0" [] n = 1 -> "1" [] n = 2 -> "2" [] n = 3 -> "3" [] n = 5 -> "5"
      [] n = 20 -> "20"

parseInt(str) ==
    CASE str = "0" -> 0 [] str = "1" -> 1 [] str = "2" -> 2 [] str = "3" -> 3 [] str = "5" -> 5
      [] str = "20" -> 20

RECURSIVE SelectById(_, _)
SelectById(docs, ids) ==
    IF docs = <<>> THEN <<>>
    ELSE IF Head(docs).id \in ids THEN <<Head(docs)>> \o SelectById(Tail(docs), ids)
         ELSE SelectById(Tail(docs), ids)

AllIds(docs) == {docs[i].id : i \in 1..Len(docs)}

\* the service's side of GET /documents: the documents of the category, those
\* matching q when q is sent, cut into pages of at most its own page size
ServerMatches(remote, params) ==
    LET inCategory == IF params.filter = 2 THEN remote.shared ELSE AllIds(remote.documents)
        inQuery == IF Has(params, "q") THEN remote.hits ELSE AllIds(remote.documents)
    IN SelectById(remote.documents, inCategory \cap inQuery)

ServerPage(remote, params) ==
    LET matches == ServerMatches(remote, params)
        size == Min(params.limit, remote.pageSize)
        end == Min(params.offset + size, Len(matches))
    IN ("items" :> SubSeq(matches, params.offset + 1, end))
       @@ (IF end < Len(matches)
           THEN "next" :> (("offset" :> UrlNumber(end)) @@ ("limit" :> UrlNumber(params.limit)))
           ELSE EmptyObj)

\* getDocuments: the call-th request of this command; defaults filter CREATED,
\* offset 0, limit 20; q is sent only when it is not empty
getDocuments(remote, options, call) ==
    LET params ==
            ("filter" :> (IF Has(options, "filter") THEN options.filter ELSE 1))
            @@ ("offset" :> (IF Has(options, "offset") THEN options.offset ELSE 0))
            @@ ("limit" :> (IF Has(options, "limit") THEN options.limit ELSE DefaultLimit))
            @@ TruthyProp(options, "q")
    IN IF remote.failAt = call THEN Throws(remote.status)
       ELSE Returns(ServerPage(remote, params))

\* { ...options } with offset and limit taken from the next URL when it has them
NextOptions(options, next) ==
    (IF Has(next, "limit") THEN "limit" :> parseInt(next.limit) ELSE EmptyObj)
    @@ (IF Has(next, "offset") THEN "offset" :> parseInt(next.offset) ELSE EmptyObj)
    @@ options

\* the loop of getAllDocuments from the request about to be made
RECURSIVE CollectPages(_, _, _, _, _)
CollectPages(remote, options, request, call, allDocuments) ==
    LET response == getDocuments(remote, request, call)
    IN IF ~response.ok THEN response
       ELSE IF ~Has(response.data, "items") \/ response.data.items = <<>>
       THEN Returns(allDocuments)
       ELSE IF ~Has(response.data, "next")
       THEN Returns(allDocuments \o response.data.items)
       ELSE CollectPages(remote, options, NextOptions(options, response.data.next),
                         call + 1, allDocuments \o response.data.items)

getAllDocuments(remote, options) ==
    CollectPages(remote, options, ("limit" :> AllDocumentsLimit) @@ options, 1, <<>>)

\* doc.documentLabels.some(docLabel => docLabel.name === label), false when
\* documentLabels is missing or empty
HasLabelNamed(doc, label) ==
    /\ Has(doc, "documentLabels")
    /\ \E i \in 1..Len(doc.documentLabels) :
          Has(doc.documentLabels[i], "name") /\ doc.documentLabels[i].name = label

RECURSIVE SelectByLabel(_, _)
SelectByLabel(docs, label) ==
    IF docs = <<>> THEN <<>>
    ELSE IF HasLabelNamed(Head(docs), label)
         THEN <<Head(docs)>> \o SelectByLabel(Tail(docs), label)
         ELSE SelectByLabel(Tail(docs), label)

\* variant: only the first page of the listing is searched
getDocumentsByLabelFirstPage(remote, label, filter) ==
    LET response == getDocuments(remote, "filter" :> filter, 1)
    IN IF ~response.ok THEN response
       ELSE Returns(SelectByLabel(response.data.items, label))

getDocumentsByLabel(remote, label, filter) ==
    LET allDocuments == getAllDocuments(remote, "filter" :> filter)
    IN IF ~allDocuments.ok THEN allDocuments
       ELSE Returns(SelectByLabel(allDocuments.data, label))

(***************************************************************************)
(* Bounded inputs: the account the service lists                           *)
(***************************************************************************)
\* d1 has the label mesh, d2 has no documentLabels, d3 has mesh and fav
ListingA ==
    <<ListedDocument("d1") @@ MeshLabel,
      ListedDocument("d2"),
      ListedDocument("d3") @@ MeshFavLabels>>

\* d1 has an empty documentLabels, d2 has mesh, d3 has fav
ListingB ==
    <<ListedDocument("d1") @@ ("documentLabels" :> <<>>),
      ListedDocument("d2") @@ MeshLabel,
      ListedDocument("d3") @@ ("documentLabels" :> <<[id |-> "L2", name |-> "fav"]>>)>>

\* no request fails; the first fails (unauthorized or not); the second fails
ListingFailures ==
    {[status |-> 0, failAt |-> 0], [status |-> 401, failAt |-> 1],
     [status |-> 500, failAt |-> 1], [status |-> 500, failAt |-> 2]}

\* d2 and d3 are in the SHARED category; the query text matches d1 and d2
RemoteAccount(docs, pageSize, failure) ==
    [status |-> failure.status, hits |-> {"d1", "d2"}, documents |-> docs,
     shared |-> {"d2", "d3"}, pageSize |-> pageSize, failAt |-> failure.failAt]

ListRemotes ==
    {RemoteAccount(docs, pageSize, failure) :
        docs \in {<<>>, ListingA, ListingB}, pageSize \in {1, 2, 20},
        failure \in ListingFailures}

(***************************************************************************)
(* SpecList: getDocumentsByLabel applied to every account                  *)
(***************************************************************************)
InitList ==
    /\ files = NoFiles
    /\ images = NoImages
    /\ pdfs = {}
    /\ last = NoCommand
    /\ bulk = BulkIdle

ListByLabel ==
    \E remote \in ListRemotes, label \in {"mesh", "fav", "cnc"}, filter \in {1, 2} :
        /\ last' = [label |-> label, cmd |-> "getDocumentsByLabel", remote |-> remote,
                    filter |-> filter,
                    result |-> getDocumentsByLabel(remote, label, filter)]
        /\ UNCHANGED <<files, images, pdfs, bulk>>

NextList == ListByLabel

SpecList == InitList /\ [][NextList]_vars

(***************************************************************************)
(* SpecSelect: bulkSync with its candidates selected from the account by   *)
(* the label, query and filter options                                     *)
(***************************************************************************)
\* parseDocumentFilter(options.filter)
parseDocumentFilter(options) ==
    IF ~Has(options, "filter") \/ options.filter = "" THEN 1
    ELSE CASE options.filter = "my-documents" -> 0
           [] options.filter = "created" -> 1
           [] options.filter = "shared" -> 2
           [] options.filter = "recent" -> 5
           [] options.filter = "public" -> 4
           [] options.filter = "trash" -> 3
           [] OTHER -> 1

\* the documents bulkSync goes on to process, or the error of the listing
bulkSyncDocuments(remote, options) ==
    LET filter == parseDocumentFilter(options)
    IN IF Has(options, "label") /\ options.label # ""
       THEN getDocumentsByLabel(remote, options.label, filter)
       ELSE LET response ==
                    getDocuments(remote,
                                 ("filter" :> filter)
                                 @@ (IF Has(options, "query") THEN "q" :> options.query
                                     ELSE EmptyObj), 1)
            IN IF ~response.ok THEN response
               ELSE Returns(IF Has(response.data, "items") THEN response.data.items ELSE <<>>)

SelectRemotes ==
    {RemoteAccount(ListingA, pageSize, failure) :
        pageSize \in {2, 20},
        failure \in {[status |-> 0, failAt |-> 0], [status |-> 401, failAt |-> 1],
                     [status |-> 500, failAt |-> 2]}}

BulkSyncOptions ==
    {label @@ query @@ filter :
        label \in {EmptyObj, "label" :> "mesh"},
        query \in {EmptyObj, "query" :> "q"},
        filter \in {EmptyObj, "filter" :> "shared"}}

\* bulkSync up to the loop, the listing being the client's
BulkSelect ==
    /\ bulk.pc = "idle"
    /\ \E remote \in SelectRemotes, options \in BulkSyncOptions, generatePdf \in BOOLEAN :
          LET listing == bulkSyncDocuments(remote, options)
          IN bulk' = [pc |-> IF ~listing.ok THEN "exited"
                             ELSE IF listing.data = <<>> THEN "done" ELSE "sync",
                      index |-> 1,
                      documents |-> IF listing.ok THEN listing.data ELSE <<>>,
                      generatePdf |-> generatePdf,
                      attempted |-> <<>>,
                      completed |-> <<>>,
                      remote |-> remote,
                      options |-> options,
                      listed |-> listing.ok]
    /\ UNCHANGED <<files, images, pdfs, last>>

NextSelect == BulkSelect \/ BulkSyncDoc \/ BulkGenerate

SpecSelect == InitBulk /\ [][NextSelect]_vars

(***************************************************************************)
(* uploadPDF (the `upload -d <id>` command) and bulkUpload, which runs it   *)
(* as a child process once per record file                                 *)
(***************************************************************************)
\* readdirSync(documentsDir).filter(file => file.endsWith('.json')), in name order
DirOrder == <<SyncFilename(TitleOf("d1")), SyncFilename(TitleOf("d2"))>>

RECURSIVE Present(_, _)
Present(fs, names) ==
    IF names = <<>> THEN <<>>
    ELSE IF fs[Head(names)].kind # "absent" THEN <<Head(names)>> \o Present(fs, Tail(names))
         ELSE Present(fs, Tail(names))

readdirSync(fs) == Present(fs, DirOrder)

\* the first record file that parses and holds the documentId, or none
RECURSIVE FindRecord(_, _, _)
FindRecord(fs, names, documentId) ==
    IF names = <<>> THEN <<>>
    ELSE IF fs[Head(names)].kind = "json" /\ Has(fs[Head(names)].data, "documentId")
            /\ fs[Head(names)].data.documentId = documentId
         THEN <<Head(names)>>
         ELSE FindRecord(fs, Tail(names), documentId)

\* variant: the title is not lower-cased first
UploadFilenameNoLower(title) == StripUnsafe(ReplaceSpaceRuns(title))

\* upload.ts computes the PDF's file name inline from the record's title
UploadFilename(title) == StripUnsafe(ReplaceSpaceRuns(LowerAll(title)))

\* variant: the record's mainWorkspaceId is preferred to the -w option
UploadWorkspaceRecordFirst(options, data) ==
    IF Has(data, "mainWorkspaceId") /\ data.mainWorkspaceId # ""
    THEN <<data.mainWorkspaceId>>
    ELSE IF Has(options, "workspace") /\ options.workspace # "" THEN <<options.workspace>>
         ELSE <<>>

\* options.workspace, else the record's mainWorkspaceId, else none
UploadWorkspace(options, data) ==
    IF Has(options, "workspace") /\ options.workspace # "" THEN <<options.workspace>>
    ELSE IF Has(data, "mainWorkspaceId") /\ data.mainWorkspaceId # ""
         THEN <<data.mainWorkspaceId>>
         ELSE <<>>

\* variant: the write-back replaces userData instead of adding to it
WithPdfElementIdOnly(data, id) ==
    ("userData" :> ("pdfElementId" :> id)) @@ data

\* documentData.userData = documentData.userData || {}; userData.pdfElementId = id
WithPdfElementId(data, id) ==
    ("userData" :> (("pdfElementId" :> id) @@ existingUserData(data))) @@ data

\* the whole of uploadPDF: response is what the remote create or update
\* answers; calls lists the remote calls made; exit is the process exit code
uploadPDF(fs, ps, options, response) ==
    LET hit == FindRecord(fs, readdirSync(fs), options.document)
    IN IF hit = <<>> THEN [files |-> fs, calls |-> <<>>, exit |-> 1]
       ELSE
       LET jsonPath == hit[1]
           data == fs[jsonPath].data
           workspace == UploadWorkspace(options, data)
           existingElementId == TruthyProp(existingUserData(data), "pdfElementId")
       IN IF UploadFilename(data.title) \notin ps \/ workspace = <<>>
          THEN [files |-> fs, calls |-> <<>>, exit |-> 1]
          ELSE IF existingElementId # EmptyObj
          THEN [files |-> fs,
                calls |-> <<[document |-> options.document, workspace |-> workspace[1],
                             element |-> existingElementId.pdfElementId, op |-> "updatePDF"]>>,
                exit |-> IF response.ok THEN 0 ELSE 1]
          ELSE [files |-> IF response.ok /\ Has(response.data, "id") /\ response.data.id # ""
                          THEN [fs EXCEPT ![jsonPath] =
                                   JsonFile(WithPdfElementId(data, response.data.id))]
                          ELSE fs,
                calls |-> <<[document |-> options.document, workspace |-> workspace[1],
                             op |-> "uploadPDF"]>>,
                exit |-> IF response.ok THEN 0 ELSE 1]

\* what the remote create or update may answer
UploadResponses == {Returns([id |-> "e1", href |-> "h1"]), Throws(401), Throws(500)}

\* variant: the label filter lets every record through
LabelsIncludeAny(data, label) == TRUE

\* documentData.labels?.includes(options.label)
LabelsInclude(data, label) == Has(data, "labels") /\ InSeq(JStr(label), data.labels)

\* one iteration of the loop over the record files: the record is skipped
\* (with or without being counted) or uploaded by the child process; the
\* 2000 ms delay is waited after an upload that succeeded, unless every file
\* has been counted.  uploads logs the runs of the child process: the answer
\* to its remote call (0 when it made none) and whether the delay has been
\* waited since the last remote upload call
BulkUploadStep(b, fs, ps, response) ==
    LET jsonFile == b.jsonFiles[b.index]
        data == fs[jsonFile].data
        processed == b.processedCount + 1
        child == uploadPDF(fs, ps,
                           ("document" :> data.documentId)
                           @@ (IF Has(b.options, "workspace")
                               THEN "workspace" :> b.options.workspace ELSE EmptyObj),
                           response)
        attempt == [status |-> IF child.calls = <<>> THEN 0
                               ELSE IF response.ok THEN 200 ELSE response.status,
                    document |-> data.documentId,
                    calls |-> child.calls, exit |-> child.exit, waited |-> b.waited]
    IN IF fs[jsonFile].kind # "json"
       THEN [files |-> fs, bulk |-> [b EXCEPT !.skippedCount = @ + 1]]
       ELSE IF Has(b.options, "label") /\ b.options.label # ""
               /\ ~LabelsInclude(data, b.options.label)
       THEN [files |-> fs, bulk |-> b]
       ELSE IF jsonFile \notin ps
       THEN [files |-> fs,
             bulk |-> [b EXCEPT !.processedCount = processed, !.skippedCount = @ + 1]]
       ELSE IF Has(existingUserData(data), "skipPdfUpload")
               /\ existingUserData(data).skipPdfUpload = TRUE
       THEN [files |-> fs,
             bulk |-> [b EXCEPT !.processedCount = processed, !.skippedCount = @ + 1]]
       ELSE IF child.exit = 0
       THEN [files |-> child.files,
             bulk |-> [b EXCEPT !.processedCount = processed, !.uploadCount = @ + 1,
                                !.uploads = Append(@, attempt),
                                !.waited = processed < Len(b.jsonFiles)]]
       ELSE [files |-> child.files,
             bulk |-> [b EXCEPT !.processedCount = processed, !.skippedCount = @ + 1,
                                !.uploads = Append(@, attempt),
                                !.waited = IF child.calls = <<>> THEN @ ELSE FALSE]]

\* the records an earlier sync left in the store
SyncedRecord(d, ws, existing) ==
    documentData(d, Snapshot(Returns(RemoteDocument(d, WithDescription, MeshLabel)),
                             ws, TwoVersions, ThumbnailsLarge), existing)

UploadStores ==
    {[f \in FileNames |-> IF f = SyncFilename(TitleOf("d1")) THEN first ELSE second] :
        first \in {CorruptFile,
                   JsonFile(SyncedRecord("d1", MainWorkspace, EmptyObj)),
                   JsonFile(SyncedRecord("d1", NoMainWorkspace, EmptyObj)),
                   JsonFile(SyncedRecord("d1", MainWorkspace,
                                         "userData" :> ("skipPdfUpload" :> TRUE))),
                   JsonFile(SyncedRecord("d1", MainWorkspace,
                                         "userData" :> ("pdfElementId" :> "up")))},
        second \in {AbsentFile,
                    JsonFile(SyncedRecord("d2", MainWorkspace, EmptyObj)),
                    JsonFile(SyncedRecord("d2", MainWorkspace,
                                          "userData" :> ("labels" :> <<JStr("fav")>>)))}}

BulkUploadOptions ==
    {label @@ workspace :
        label \in {EmptyObj, "label" :> "mesh", "label" :> "fav"},
        workspace \in {EmptyObj, "workspace" :> "wx"}}

InitUpload ==
    /\ files \in UploadStores
    /\ images = NoImages
    /\ pdfs \in SUBSET FileNames
    /\ last = NoCommand
    /\ bulk = BulkIdle

\* bulkUpload up to the loop: a missing directory ends the process, an empty
\* content directory returns early
BulkUploadStart ==
    /\ bulk.pc = "idle"
    /\ \E options \in BulkUploadOptions, dirs \in {"both", "no-content", "no-pdf"} :
          LET jsonFiles == readdirSync(files)
          IN bulk' = [pc |-> IF dirs # "both" THEN "exited"
                             ELSE IF jsonFiles = <<>> THEN "done" ELSE "upload",
                      index |-> 1,
                      options |-> options,
                      jsonFiles |-> jsonFiles,
                      processedCount |-> 0,
                      waited |-> FALSE,
                      skippedCount |-> 0,
                      uploadCount |-> 0,
                      uploads |-> <<>>]
    /\ UNCHANGED <<files, images, pdfs, last>>

BulkUploadFile ==
    /\ bulk.pc = "upload"
    /\ \E response \in UploadResponses :
          LET r == BulkUploadStep(bulk, files, pdfs, response)
          IN /\ files' = r.files
             /\ bulk' = IF r.bulk.index < Len(r.bulk.jsonFiles)
                        THEN [r.bulk EXCEPT !.index = @ + 1]
                        ELSE [r.bulk EXCEPT !.pc = "done"]
    /\ UNCHANGED <<images, pdfs, last>>

NextUpload == BulkUploadStart \/ BulkUploadFile

SpecUpload == InitUpload /\ [][NextUpload]_vars

(***************************************************************************)
(* SpecStore: syncs of several documents into one record store.  The       *)
(* remote title of a document may change between two syncs, and two        *)
(* documents may have titles with the same slug.                           *)
(***************************************************************************)
StoreDocs == {"d1", "d2"}

\* the title a document has after it was renamed remotely
RenamedTitleOf(d) ==
    CASE d = "d1" -> <<"A", " ", " ", "b", "!">>
      [] d = "d2" -> <<"a", "-", "b">>

RemoteTitles(d) == {TitleOf(d), RenamedTitleOf(d)}

RenamedDocument(d, title) ==
    ("name" :> title) @@ RemoteDocument(d, WithDescription, MeshLabel)

\* a "Start" entry in the middle, an entry with a description, one without a name
MixedVersions ==
    Returns(<<[id |-> "v1", name |-> "V1", description |-> "first",
               createdAt |-> "2023-05-06T07:08:09.123+00:00", microversion |-> "m1"],
              [id |-> "v0", name |-> "Start",
               createdAt |-> "2024-01-02T03:04:05.000+00:00", microversion |-> "m0"],
              [id |-> "v2", createdAt |-> "2024-01-02T03:04:05.000Z"]>>)

\* the document under each of its titles, every fetch succeeding
TitleSnapshots(d) ==
    {Snapshot(Returns(RenamedDocument(d, title)), MainWorkspace, TwoVersions, ThumbnailsLarge) :
        title \in RemoteTitles(d)}

\* the other answers of the versions and thumbnails fetches, for document d1
DetailSnapshots(d) ==
    IF d # "d1" THEN {}
    ELSE {Snapshot(Returns(RenamedDocument(d, TitleOf(d))), MainWorkspace, vs, ThumbnailsLarge) :
             vs \in {Throws(500), MixedVersions}}
         \cup
         {Snapshot(Returns(RenamedDocument(d, TitleOf(d))), MainWorkspace, TwoVersions, th) :
             th \in {ThumbnailsFail, ThumbnailsSmall, ThumbnailsLargeNoImage}}

StoreSnapshots(d) == TitleSnapshots(d) \cup DetailSnapshots(d) \cup {FailedSnapshot(404)}

\* the record of d1 the user has been editing before the first sync here
StorePrior ==
    PriorRecord("d1", EmptyObj, EmptyObj, "labels" :> <<JStr("fav")>>,
                [author |-> Ann, workspaceId |-> "uw", elementId |-> "ue", pdfElementId |-> "up"],
                "customNote" :> "x")

InitStore ==
    /\ \E prior \in {AbsentFile, JsonFile(StorePrior)} :
          files = [NoFiles EXCEPT ![SyncFilename(TitleOf("d1"))] = prior]
    /\ images = NoImages
    /\ pdfs = {}
    /\ last = NoCommand
    /\ bulk = BulkIdle

\* `sync -d <id>` for any document
SyncAny ==
    \E d \in StoreDocs :
      \E snapshot \in StoreSnapshots(d) :
        LET r == syncDocuments(files, images, d, snapshot)
        IN /\ files' = r.files
           /\ images' = r.images
           /\ last' = [document |-> d, snapshot |-> snapshot, calls |-> r.calls,
                       found |-> r.found, wrote |-> r.wrote, exit |-> r.exit,
                       cmd |-> "sync"]
           /\ UNCHANGED <<pdfs, bulk>>

NextStore == SyncAny

SpecStore == InitStore /\ [][NextStore]_vars

(***************************************************************************)
(* SpecCycle: the sync, generate and upload commands run one after another *)
(* on one store.  Document d2 is synced and its remote title               *)
(* may change between two syncs; d1 is never synced.  The remote service   *)
(* gives every PDF element it creates a new id.  last also carries what    *)
(* the uploads have done so far: how many elements the service created,    *)
(* and per document the element id the upload workflow wrote back.         *)
(***************************************************************************)
MaxCreated == 2

CycleDocs == {"d1", "d2"}

ElementId(n) ==
    CASE n = 1 -> "e1" [] n = 2 -> "e2" [] n = 3 -> "e3" [] n = 4 -> "e4" [] n = 5 -> "e5"

\* what the remote create or update may answer when created elements exist:
\* the new element, a body without an id, or an error
CycleResponses(created) ==
    {Returns([id |-> ElementId(created + 1), href |-> "h1"]),
     Returns([href |-> "h1"]),
     Throws(500)}

\* d2 under each of its titles; the workspace fetch succeeds or throws
CycleSnapshots(d) ==
    {Snapshot(Returns(RenamedDocument(d, title)), ws, TwoVersions, ThumbnailsLarge) :
        title \in RemoteTitles(d), ws \in {MainWorkspace, Throws(500)}}

\* the record of d2 synced under the title "a-b", in which the user has since
\* set userData.skipPdfUpload
FlaggedRecord ==
    documentData("d2",
                 Snapshot(Returns(RenamedDocument("d2", RenamedTitleOf("d2"))),
                          MainWorkspace, TwoVersions, ThumbnailsLarge),
                 "userData" :> ("skipPdfUpload" :> TRUE))

NoUploads == [d \in CycleDocs |-> ""]

\* the ledger after a run of uploadPDF that ended as r
CreatedNow(r, response) ==
    r.calls # <<>> /\ r.calls[1].op = "uploadPDF" /\ response.ok

CreatedAfter(created, r, response) ==
    IF CreatedNow(r, response) THEN created + 1 ELSE created

WrittenAfter(written, fs, r, response, d) ==
    IF CreatedNow(r, response) /\ r.files # fs
    THEN [written EXCEPT ![d] = response.data.id]
    ELSE written

InitCycle ==
    /\ \E prior \in {AbsentFile, JsonFile(FlaggedRecord)} :
          files = [NoFiles EXCEPT ![SyncFilename(RenamedTitleOf("d2"))] = prior]
    /\ images = NoImages
    /\ pdfs = {}
    /\ last = [cmd |-> "none", created |-> 0, written |-> NoUploads]
    /\ bulk = BulkIdle

\* `sync -d d2`
CycleSync ==
    /\ \E snapshot \in CycleSnapshots("d2") :
          LET r == syncDocuments(files, images, "d2", snapshot)
          IN /\ files' = r.files
             /\ images' = r.images
             /\ last' = [document |-> "d2", calls |-> r.calls, exit |-> r.exit,
                         cmd |-> "sync", created |-> last.created,
                         written |-> last.written]
    /\ UNCHANGED <<pdfs, bulk>>

\* `generate -d d2`: the PDF is named after the slug of the remote title
CycleGenerate ==
    /\ \E title \in RemoteTitles("d2") :
          LET r == generatePDF(pdfs, generateFilenameFromTitle(title),
                               [document |-> Returns("doc"), template |-> "found",
                                typst |-> "ok"])
          IN /\ pdfs' = r.pdfs
             /\ last' = [document |-> "d2", calls |-> <<"getDocument">>, exit |-> r.exit,
                         cmd |-> "generate", created |-> last.created,
                         written |-> last.written]
    /\ UNCHANGED <<files, images, bulk>>

\* `upload -d <id> [-w <workspace>]`
CycleUpload ==
    /\ \E d \in CycleDocs, workspace \in {EmptyObj, "workspace" :> "wx"},
          response \in CycleResponses(last.created) :
          LET options == ("document" :> d) @@ workspace
              r == uploadPDF(files, pdfs, options, response)
          IN /\ CreatedAfter(last.created, r, response) <= MaxCreated
             /\ files' = r.files
             /\ last' = [document |-> d, calls |-> r.calls, exit |-> r.exit,
                         cmd |-> "upload", options |-> options,
                         created |-> CreatedAfter(last.created, r, response),
                         written |-> WrittenAfter(last.written, files, r, response, d)]
    /\ UNCHANGED <<images, pdfs, bulk>>

NextCycle == CycleSync \/ CycleGenerate \/ CycleUpload

SpecCycle == InitCycle /\ [][NextCycle]_vars

(***************************************************************************)
(* SpecStoreUpload: syncs of d2, whose remote title may change between two *)
(* of them, and then one run of `bulk upload` over the store they left     *)
(***************************************************************************)
InitStoreUpload ==
    /\ \E prior \in {AbsentFile, JsonFile(FlaggedRecord)} :
          files = [NoFiles EXCEPT ![SyncFilename(RenamedTitleOf("d2"))] = prior]
    /\ images = NoImages
    /\ pdfs \in SUBSET FileNames
    /\ last = NoCommand
    /\ bulk = BulkIdle

\* `sync -d d2` under either of its titles, before `bulk upload` is run
SyncBefore ==
    /\ bulk.pc = "idle"
    /\ \E snapshot \in TitleSnapshots("d2") :
          LET r == syncDocuments(files, images, "d2", snapshot)
          IN /\ files' = r.files
             /\ images' = r.images
             /\ last' = [document |-> "d2", snapshot |-> snapshot, calls |-> r.calls,
                         found |-> r.found, wrote |-> r.wrote, exit |-> r.exit,
                         cmd |-> "sync"]
    /\ UNCHANGED <<pdfs, bulk>>

NextStoreUpload == SyncBefore \/ BulkUploadStart \/ BulkUploadFile

SpecStoreUpload == InitStoreUpload /\ [][NextStoreUpload]_vars

(***************************************************************************)
(* SpecSlug: the three places that derive a storage name from a title,     *)
(* applied to every title of up to MaxTitleLen characters                  *)
(***************************************************************************)
MaxTitleLen == 3

\* an upper-case and a lower-case letter, a digit, two kinds of whitespace,
\* the hyphen, a punctuation mark and a letter outside a-z
TitleChars == {"A", "b", "1", " ", "\t", "-", "!", "é"}

Titles == UNION {[1..n -> TitleChars] : n \in 0..MaxTitleLen}

InitSlug ==
    /\ files = NoFiles
    /\ images = NoImages
    /\ pdfs = {}
    /\ last = NoCommand
    /\ bulk = BulkIdle

\* the names sync, generate and upload derive from one title, and the name
\* derived from that name again
Slugify ==
    \E title \in Titles :
        /\ last = NoCommand
        /\ last' = [title |-> title, cmd |-> "slug",
                    syncName |-> SyncFilename(title),
                    generateName |-> generateFilenameFromTitle(title),
                    uploadName |-> UploadFilename(title),
                    again |-> SyncFilename(SyncFilename(title))]
        /\ UNCHANGED <<files, images, pdfs, bulk>>

NextSlug == Slugify

SpecSlug == InitSlug /\ [][NextSlug]_vars

(***************************************************************************)
(* listDocuments (the `list` command).  The page size it asks for is a     *)
(* JavaScript number: an integer here, or NaN.                             *)
(***************************************************************************)
NaN == <<>>
Num(n) == <<n>>

\* parseInt(str) of the text given as --limit: the leading integer, else NaN
parseIntText(str) ==
    CASE str = "20" -> Num(20)
      [] str = "0" -> Num(0)
      [] str = "-3" -> Num(-3)
      [] str = "5" -> Num(5)
      [] str = "100" -> Num(100)
      [] str = "1.5" -> Num(1)
      [] str = "5abc" -> Num(5)
      [] str = "abc" -> NaN
      [] str = "Infinity" -> NaN

\* Math.max and Math.min: NaN when either argument is NaN
MathMax(a, b) == IF a = NaN \/ b = NaN THEN NaN ELSE IF a[1] >= b[1] THEN a ELSE b
MathMin(a, b) == IF a = NaN \/ b = NaN THEN NaN ELSE IF a[1] <= b[1] THEN a ELSE b

\* Math.min(20, Math.max(1, parseInt(options.limit || '20')))
ListLimit(options) ==
    MathMin(Num(20),
            MathMax(Num(1),
                    parseIntText(IF Has(options, "limit") /\ options.limit # ""
                                 THEN options.limit ELSE "20")))

\* { filter, q: options.query } of the listing calls
ListCriteria(options) ==
    ("filter" :> parseDocumentFilter(options))
    @@ (IF Has(options, "query") THEN "q" :> options.query ELSE EmptyObj)

\* the limit of every request getAllDocuments makes, in order
RECURSIVE PageLimits(_, _, _, _)
PageLimits(remote, options, request, call) ==
    LET response == getDocuments(remote, request, call)
        limit == Num(IF Has(request, "limit") THEN request.limit ELSE DefaultLimit)
    IN IF ~response.ok \/ ~Has(response.data, "items") \/ response.data.items = <<>>
          \/ ~Has(response.data, "next")
       THEN <<limit>>
       ELSE <<limit>> \o PageLimits(remote, options,
                                    NextOptions(options, response.data.next), call + 1)

\* the whole of listDocuments: the limits it sent and the listing it printed
\* or the error; nanAnswer is what the service answers to a limit of NaN
listDocuments(remote, options, nanAnswer) ==
    LET criteria == ListCriteria(options)
        limit == ListLimit(options)
    IN IF Has(options, "allPages") /\ options.allPages
       THEN [result |-> getAllDocuments(remote, criteria),
             requested |-> PageLimits(remote, criteria,
                                      ("limit" :> AllDocumentsLimit) @@ criteria, 1)]
       ELSE LET response == IF limit = NaN THEN nanAnswer
                            ELSE getDocuments(remote, ("limit" :> limit[1]) @@ criteria, 1)
            IN [result |-> IF ~response.ok THEN response
                           ELSE Returns(IF Has(response.data, "items")
                                        THEN response.data.items ELSE <<>>),
                requested |-> <<limit>>]

\* the texts given as --limit, or none
ListOptions ==
    {limit @@ allPages @@ query :
        limit \in {EmptyObj} \cup
                  {"limit" :> t : t \in {"", "0", "-3", "5", "20", "100", "1.5", "5abc",
                                         "abc", "Infinity"}},
        allPages \in {EmptyObj, "allPages" :> TRUE},
        query \in {EmptyObj, "query" :> "q"}}

ListCmdRemotes ==
    {RemoteAccount(ListingA, pageSize, failure) :
        pageSize \in {2, 20},
        failure \in {[status |-> 0, failAt |-> 0], [status |-> 401, failAt |-> 1]}}

\* `list [--limit <text>] [--all-pages] [-q <text>]`
ListCmd ==
    \E remote \in ListCmdRemotes, options \in ListOptions,
       nanAnswer \in {Throws(400), Returns("items" :> <<>>)} :
        LET r == listDocuments(remote, options, nanAnswer)
        IN /\ last' = [cmd |-> "list", remote |-> remote, options |-> options,
                       result |-> r.result, requested |-> r.requested]
           /\ UNCHANGED <<files, images, pdfs, bulk>>

NextListCmd == ListCmd

SpecListCmd == InitList /\ [][NextListCmd]_vars

(***************************************************************************)
(* SpecPages: the loop of getAllDocuments, one request at a time, against  *)
(* a listing given page by page.  Every page but the last carries a next   *)
(* URL; the URL names the next page by offset and limit or by a cursor,    *)
(* and a page may have lost items to a filter the service applies after    *)
(* it has cut the pages.                                                   *)
(***************************************************************************)
MaxRequests == 4

RECURSIVE Visible(_, _)
Visible(ids, hidden) ==
    IF ids = <<>> THEN <<>>
    ELSE IF Head(ids) \in hidden THEN Visible(Tail(ids), hidden)
         ELSE <<ListedDocument(Head(ids))>> \o Visible(Tail(ids), hidden)

\* the k-th page of the listing of raw, cut every size entries
ListingPage(raw, hidden, size, style, k) ==
    LET start == (k - 1) * size
        end == Min(k * size, Len(raw))
    IN [items |-> Visible(SubSeq(raw, start + 1, end), hidden), start |-> start]
       @@ (IF end = Len(raw) THEN EmptyObj
           ELSE IF style = "offset"
           THEN "next" :> (("offset" :> UrlNumber(end))
                           @@ ("limit" :> UrlNumber(AllDocumentsLimit)))
           ELSE "next" :> ("cursor" :> "c1"))

PageCount(raw, size) == (Len(raw) + size - 1) \div size

PagedListing(raw, hidden, size, style) ==
    [k \in 1..PageCount(raw, size) |-> ListingPage(raw, hidden, size, style, k)]

PagedListings ==
    {PagedListing(raw, hidden, size, style) :
        raw \in {<<"d1", "d2", "d3">>, <<"d2", "d3", "d1">>, <<"d3", "d1">>},
        hidden \in {{}, {"d1"}, {"d2"}, {"d3"}},
        size \in {1, 2, 20},
        style \in {"offset", "cursor"}}

\* getDocuments against such a listing: offset defaults to 0, and the service
\* answers with the page that starts there
getDocumentsPaged(listing, options) ==
    LET offset == IF Has(options, "offset") THEN options.offset ELSE 0
        hits == {k \in 1..Len(listing) : listing[k].start = offset}
    IN IF hits = {} THEN "items" :> <<>>
       ELSE Omit(listing[CHOOSE k \in hits : TRUE], {"start"})

InitPages ==
    /\ files = NoFiles
    /\ images = NoImages
    /\ pdfs = {}
    /\ last = NoCommand
    /\ bulk = BulkIdle

\* let response = await this.getDocuments({ ...options, limit: 20 })
PagesStart ==
    /\ bulk.pc = "idle"
    /\ \E listing \in PagedListings :
          bulk' = [calls |-> 1, pc |-> "loop", remote |-> listing,
                   options |-> "filter" :> 1,
                   allDocuments |-> <<>>,
                   response |-> getDocumentsPaged(listing,
                                    ("limit" :> AllDocumentsLimit) @@ ("filter" :> 1))]
    /\ UNCHANGED <<files, images, pdfs, last>>

\* the test of the while loop and one run of its body
PagesLoop ==
    /\ bulk.pc = "loop"
    /\ LET response == bulk.response
       IN IF ~Has(response, "items") \/ response.items = <<>>
          THEN bulk' = [bulk EXCEPT !.pc = "done"]
          ELSE IF ~Has(response, "next")
          THEN bulk' = [bulk EXCEPT !.pc = "done",
                                    !.allDocuments = @ \o response.items]
          ELSE /\ bulk.calls < MaxRequests
               /\ bulk' = [bulk EXCEPT
                             !.allDocuments = @ \o response.items,
                             !.calls = @ + 1,
                             !.response = getDocumentsPaged(bulk.remote,
                                              NextOptions(bulk.options, response.next))]
    /\ UNCHANGED <<files, images, pdfs, last>>

NextPages == PagesStart \/ PagesLoop

SpecPages == InitPages /\ [][NextPages]_vars

(***************************************************************************)
(* Properties of the sync command (checked under Spec)                     *)
(***************************************************************************)
RecordFile == SyncFilename(TitleOf(SyncDoc))

\* the last command was a sync that wrote the record
Synced == last.cmd = "sync" /\ last.exit = 0
SyncedNext == last'.cmd = "sync" /\ last'.exit = 0

Record == files[RecordFile].data
RecordBefore == IF files[RecordFile].kind = "json" THEN files[RecordFile].data ELSE EmptyObj
RecordAfter == files'[RecordFile].data
UserDataBefore == IF Has(RecordBefore, "userData") THEN RecordBefore.userData ELSE EmptyObj
UserDataAfter == RecordAfter.userData

\* the names of the remote labels of a fetched document, in order
FetchedLabelNames(snapshot) ==
    LET doc == snapshot.document.data
    IN IF Has(doc, "documentLabels")
       THEN [i \in 1..Len(doc.documentLabels) |-> JStr(doc.documentLabels[i].name)]
       ELSE <<>>

\* the names of the labels the user kept in userData.labels, in order
StoredUserLabelNames(ud) ==
    IF Has(ud, "labels")
    THEN [i \in 1..Len(ud.labels) |->
            IF ud.labels[i].type = "string" THEN ud.labels[i] ELSE JStr(ud.labels[i].name)]
    ELSE <<>>

FirstIndex(x, s) == CHOOSE i \in 1..Len(s) : s[i] = x /\ \A j \in 1..(i - 1) : s[j] # x

\* l lists every element of s once, in the order of first occurrence in s
IsFirstOccurrenceList(l, s) ==
    /\ {l[i] : i \in 1..Len(l)} = {s[i] : i \in 1..Len(s)}
    /\ \A i, j \in 1..Len(l) : i < j => FirstIndex(l[i], s) < FirstIndex(l[j], s)

\* C1: a second sync of the same remote snapshot against the record the first
\* sync wrote leaves the record exactly as it was
C1_Idempotent ==
    [][(Synced /\ SyncedNext /\ last'.snapshot = last.snapshot) => files' = files]_vars

\* C2: after a sync the record's labels are the fetched remote label names
\* followed by the prior userData.labels not among them, each once, in order
\* of first occurrence; nothing else (no stale top-level label) is in the list
C2_LabelsAreUnion ==
    [][SyncedNext =>
         IsFirstOccurrenceList(RecordAfter.labels,
             FetchedLabelNames(last'.snapshot) \o StoredUserLabelNames(UserDataBefore))]_vars

\* a sync fetched only "mesh", the user had kept "fav": labels are mesh, fav
C2_Witness ==
    /\ Synced /\ last.found = "json"
    /\ FetchedLabelNames(last.snapshot) = <<JStr("mesh")>>
    /\ Record.labels = <<JStr("mesh"), JStr("fav")>>
    /\ Record.userData.labels = <<JStr("fav")>>

C4_PassthroughAsStated ==
    [][SyncedNext =>
         \A k \in DOMAIN UserDataBefore \
                  {"workspaceId", "elementId", "pdfElementId", "author", "labels"} :
            Has(UserDataAfter, k) /\ UserDataAfter[k] = UserDataBefore[k]]_vars

\* the top-level keys of the prior record that a sync moves into userData
MigratedKeys ==
    DOMAIN RecordBefore \
        {"documentId", "title", "description", "createdAt", "versions", "thumbnails",
         "labels", "workspaceId", "elementId", "changelog", "author", "userData"}

\* C4 amended: every userData key other than workspaceId, elementId,
\* pdfElementId, author, labels, description, changelog is in the new userData;
\* its value is the same, unless the prior record also has that key at the top
\* level and the sync migrates it, in which case the top-level value wins
C4_Passthrough ==
    [][SyncedNext =>
         \A k \in DOMAIN UserDataBefore \
                  {"workspaceId", "elementId", "pdfElementId", "author", "labels",
                   "description", "changelog"} :
            /\ Has(UserDataAfter, k)
            /\ UserDataAfter[k] = IF k \in MigratedKeys THEN RecordBefore[k]
                                  ELSE UserDataBefore[k]]_vars

\* a record with userData.customNote and userData.notes has been synced
C4_Witness ==
    /\ Synced /\ last.found = "json"
    /\ Has(Record.userData, "customNote") /\ Record.userData.customNote = "x"
    /\ Has(Record.userData, "notes") /\ Record.userData.notes = "mine"
    /\ ~Has(Record.userData, "description")

\* C5 as stated: every top-level key other than documentId, title, description,
\* createdAt, versions, thumbnails, labels, userData, workspaceId, elementId is
\* in the new userData with the same value and not at the new top level
C5_MigrationAsStated ==
    [][SyncedNext =>
         \A k \in DOMAIN RecordBefore \
                  {"documentId", "title", "description", "createdAt", "versions",
                   "thumbnails", "labels", "userData", "workspaceId", "elementId"} :
            /\ Has(UserDataAfter, k) /\ UserDataAfter[k] = RecordBefore[k]
            /\ ~Has(RecordAfter, k)]_vars

\* C5 amended: every top-level key other than those and changelog, author is
\* in the new userData with the same value; it is not at the new top level
\* unless it is onshapeUrl or mainWorkspaceId, which the sync writes itself
C5_Migration ==
    [][SyncedNext =>
         \A k \in DOMAIN RecordBefore \
                  {"documentId", "title", "description", "createdAt", "versions",
                   "thumbnails", "labels", "userData", "workspaceId", "elementId",
                   "changelog", "author"} :
            /\ Has(UserDataAfter, k) /\ UserDataAfter[k] = RecordBefore[k]
            /\ Has(RecordAfter, k) => k \in {"onshapeUrl", "mainWorkspaceId"}]_vars

\* a record with a top-level notes = "abc" has been synced
C5_Witness ==
    /\ Synced /\ last.found = "json"
    /\ ~Has(Record, "notes")
    /\ Has(Record.userData, "notes") /\ Record.userData.notes = "abc"

NonEmpty(o, k) == Has(o, k) /\ o[k] # ""

\* C6 as stated: author, workspaceId, elementId and pdfElementId of the new
\* userData equal the prior userData values when present there; when absent,
\* author is the configured default and the other three are absent
C6_UserOwnedAsStated ==
    [][SyncedNext =>
         \A k \in {"author", "workspaceId", "elementId", "pdfElementId"} :
            IF Has(UserDataBefore, k)
            THEN Has(UserDataAfter, k) /\ UserDataAfter[k] = UserDataBefore[k]
            ELSE IF k = "author" THEN UserDataAfter.author = DefaultAuthor
                 ELSE ~Has(UserDataAfter, k)]_vars

\* C6 amended: each of the four equals the prior userData value when that is
\* present and not empty; otherwise workspaceId, elementId and author take the
\* prior record's top-level value of the same name when it has one, and only
\* then is author the configured default and are the ids absent; the sync
\* never makes up a pdfElementId: it is absent unless the prior record has one
\* in userData or at the top level, and a top-level one is migrated over it
C6_UserOwned ==
    [][SyncedNext =>
         /\ Has(UserDataAfter, "author")
         /\ UserDataAfter.author =
               IF Has(UserDataBefore, "author") THEN UserDataBefore.author
               ELSE IF Has(RecordBefore, "author") THEN RecordBefore.author
               ELSE DefaultAuthor
         /\ \A k \in {"workspaceId", "elementId"} :
               IF NonEmpty(UserDataBefore, k)
               THEN Has(UserDataAfter, k) /\ UserDataAfter[k] = UserDataBefore[k]
               ELSE IF NonEmpty(RecordBefore, k)
               THEN Has(UserDataAfter, k) /\ UserDataAfter[k] = RecordBefore[k]
               ELSE ~Has(UserDataAfter, k)
         /\ IF Has(RecordBefore, "pdfElementId")
            THEN Has(UserDataAfter, "pdfElementId")
                 /\ UserDataAfter.pdfElementId = RecordBefore.pdfElementId
            ELSE IF NonEmpty(UserDataBefore, "pdfElementId")
            THEN Has(UserDataAfter, "pdfElementId")
                 /\ UserDataAfter.pdfElementId = UserDataBefore.pdfElementId
            ELSE ~Has(UserDataAfter, "pdfElementId")]_vars

\* a record whose userData held all four fields has been synced
C6_Witness ==
    /\ Synced /\ last.found = "json"
    /\ Has(Record.userData, "pdfElementId") /\ Record.userData.pdfElementId = "up"
    /\ Has(Record.userData, "workspaceId") /\ Record.userData.workspaceId = "uw"
    /\ Has(Record.userData, "elementId") /\ Record.userData.elementId = "ue"
    /\ Record.userData.author = Ann

\* C7: after a sync title, description, createdAt, versions and thumbnails
\* are what the fetched snapshot says, whatever the record held before
C7_ApiFieldsFromSnapshot ==
    Synced =>
        LET doc == last.snapshot.document.data
        IN /\ Record.title = doc.name
           /\ Record.description = (IF Has(doc, "description") THEN doc.description ELSE "")
           /\ Record.createdAt = toISOString(doc.createdAt)
           /\ Record.versions = versions(last.snapshot.versions)
           /\ Record.thumbnails = thumbnails(last.snapshot.thumbnails)

\* a hand-edited record has been synced with a snapshot that has a description
C7_Witness ==
    /\ Synced /\ last.found = "json"
    /\ Record.description = "A box"
    /\ Len(Record.versions) = 1 /\ Len(Record.thumbnails) = 2

\* C8: when the metadata fetch succeeds the record is written whichever of the
\* workspace, versions and thumbnails fetches throw: title, description and
\* labels come from the metadata, a fetch that succeeded fills its field, and a
\* fetch that threw leaves versions = [], thumbnails = [], no mainWorkspaceId
C8_PartialFailure ==
    (last.cmd = "sync" /\ last.snapshot.document.ok) =>
        LET doc == last.snapshot.document.data
            fetched == FetchedLabelNames(last.snapshot)
        IN /\ last.wrote /\ last.exit = 0
           /\ files[RecordFile].kind = "json"
           /\ Record.title = doc.name
           /\ Record.description = (IF Has(doc, "description") THEN doc.description ELSE "")
           /\ \A i \in 1..Len(fetched) : InSeq(fetched[i], Record.labels)
           /\ IF last.snapshot.versions.ok THEN Len(Record.versions) = 1
              ELSE Record.versions = <<>>
           /\ IF last.snapshot.thumbnails.ok THEN Len(Record.thumbnails) >= 1
              ELSE Record.thumbnails = <<>>
           /\ ~last.snapshot.workspaces.ok => ~Has(Record, "mainWorkspaceId")

\* the versions fetch threw over a record that had versions; the thumbnails
\* and the workspace were fetched
C8_Witness ==
    /\ Synced /\ last.found = "json"
    /\ ~last.snapshot.versions.ok /\ last.snapshot.thumbnails.ok
    /\ last.snapshot.workspaces.ok
    /\ Record.versions = <<>> /\ Len(Record.thumbnails) = 2
    /\ Has(Record, "mainWorkspaceId") /\ Record.title = TitleOf(SyncDoc)

\* C9: a sync whose getDocument throws makes no other remote call and leaves
\* the record store and the thumbnail file as they were; a sync whose
\* getDocument succeeds always writes the record
C9_MetadataFailureAborts ==
    [][last'.cmd = "sync" =>
         IF last'.snapshot.document.ok
         THEN last'.wrote /\ files'[RecordFile].kind = "json"
         ELSE /\ last'.calls = <<"getDocument">>
              /\ ~last'.wrote
              /\ files' = files
              /\ images' = images]_vars

\* getDocument threw on a sync of a document that has a record
C9_Witness ==
    /\ last.cmd = "sync" /\ ~last.snapshot.document.ok /\ last.exit = 1
    /\ files[RecordFile].kind = "json"

(***************************************************************************)
(* Properties of bulkSync (checked under SpecBulk)                         *)
(***************************************************************************)
BulkEnded == bulk.pc \in {"done", "exited"}

\* C10: when bulkSync ends, every candidate of the list has been attempted,
\* in order, whichever syncs and PDF generations failed
C10_BatchContinues ==
    BulkEnded => bulk.attempted = [i \in 1..Len(bulk.documents) |-> bulk.documents[i].id]

(***************************************************************************)
(* Properties of the record store (checked under SpecStore)                *)
(***************************************************************************)
\* the record file the sync that just ended wrote
WrittenFile == SyncFilename(last'.snapshot.document.data.name)
WroteNext == last'.cmd = "sync" /\ last'.wrote

\* C12: a sync of document D merges only with a record whose documentId is
\* D, so the documentId held by a record file never changes once written
C12_MergesOwnRecordOnly ==
    [][WroteNext =>
         /\ files[WrittenFile].kind = "json" =>
               files[WrittenFile].data.documentId = last'.document
         /\ \A f \in FileNames :
               (files[f].kind = "json" /\ files'[f].kind = "json") =>
                   files'[f].data.documentId = files[f].data.documentId]_vars

\* C13: the store never holds two record files with the same documentId
C13_OneRecordPerDocument ==
    \A f, g \in FileNames :
        (files[f].kind = "json" /\ files[g].kind = "json"
         /\ files[f].data.documentId = files[g].data.documentId) => f = g

NotNamedStart(v) == ~(Has(v, "name") /\ v.name = "Start")

\* C14: the versions a sync stores are the fetched versions that are not named
\* "Start", in the fetched order, each with exactly the keys id, name,
\* description, createdAt, microversion; no stored version is named "Start"
C14_NoStartVersion ==
    [][WroteNext =>
         LET stored == files'[WrittenFile].data.versions
             resp == last'.snapshot.versions
             kept == IF resp.ok THEN SelectSeq(resp.data, NotNamedStart) ELSE <<>>
         IN /\ Len(stored) = Len(kept)
            /\ \A i \in 1..Len(stored) :
                 /\ DOMAIN stored[i] = {"id", "name", "description", "createdAt", "microversion"}
                 /\ stored[i].name # "Start"
                 /\ stored[i].id = kept[i].id
                 /\ stored[i].name = (IF Has(kept[i], "name") THEN kept[i].name
                                      ELSE VersionFallbackName(kept[i].id))
                 /\ stored[i].description =
                       (IF Has(kept[i], "description") THEN kept[i].description ELSE "")
                 /\ stored[i].createdAt = toISOString(kept[i].createdAt)
                 /\ stored[i].microversion =
                       (IF Has(kept[i], "microversion") THEN kept[i].microversion ELSE "")]_vars

\* a sync fetched V1, Start and an unnamed version over a record that had a
\* "Start" version: V1 and the unnamed one are stored, in that order
C14_Witness ==
    /\ last.cmd = "sync" /\ last.wrote /\ last.found = "json"
    /\ last.snapshot.versions.ok /\ Len(last.snapshot.versions.data) = 3
    /\ LET stored == files[SyncFilename(last.snapshot.document.data.name)].data.versions
       IN /\ Len(stored) = 2
          /\ stored[1].id = "v1" /\ stored[2].id = "v2"
          /\ stored[2].name = "Version v2"

\* the sizes the thumbnails fetch of a snapshot listed
FetchedSizes(snapshot) ==
    IF snapshot.thumbnails.ok /\ Has(snapshot.thumbnails.data, "sizes")
    THEN snapshot.thumbnails.data.sizes ELSE <<>>

\* C20: the preview is downloaded exactly when the fetched list has a 600x340
\* entry; only the image file of the synced documentId can change, and only
\* when the download succeeds; whatever the download does, the record is
\* written and its thumbnails are the fetched list
C20_ThumbnailIndependent ==
    [][(last'.cmd = "sync" /\ last'.snapshot.document.ok) =>
         LET sizes == FetchedSizes(last'.snapshot)
             large == \E i \in 1..Len(sizes) : sizes[i].size = "600x340"
             stored == files'[WrittenFile].data.thumbnails
         IN /\ InSeq("downloadThumbnail", last'.calls) <=> large
            /\ \A e \in Docs \ {last'.document} : images'[e] = images[e]
            /\ images'[last'.document] =
                  (IF large /\ last'.snapshot.image.ok THEN last'.snapshot.image.data
                   ELSE images[last'.document])
            /\ last'.wrote /\ last'.exit = 0
            /\ files'[WrittenFile].kind = "json"
            /\ Len(stored) = Len(sizes)
            /\ \A i \in 1..Len(sizes) :
                  stored[i].size = sizes[i].size /\ stored[i].url = sizes[i].href]_vars

\* the 600x340 preview was listed but its download failed: no image file, and
\* the record was written with both thumbnails
C20_Witness ==
    /\ last.cmd = "sync" /\ last.wrote
    /\ Len(FetchedSizes(last.snapshot)) = 2 /\ ~last.snapshot.image.ok
    /\ InSeq("downloadThumbnail", last.calls)
    /\ images[last.document] = "none"
    /\ Len(files[SyncFilename(last.snapshot.document.data.name)].data.thumbnails) = 2

(***************************************************************************)
(* Properties of the listing (checked under SpecList and SpecSelect)       *)
(***************************************************************************)
\* the service lists doc under the category, under the query, with the label
InCategory(remote, filter, doc) == filter = 2 => doc.id \in remote.shared
MatchesQuery(remote, doc) == doc.id \in remote.hits
Labelled(doc, label) ==
    /\ "documentLabels" \in DOMAIN doc
    /\ \E i \in DOMAIN doc.documentLabels : doc.documentLabels[i].name = label

\* the entries of docs that satisfy Keep, in the order of docs
RECURSIVE Subsequence(_, _)
Subsequence(docs, keep) ==
    IF docs = <<>> THEN <<>>
    ELSE IF Head(docs).id \in keep THEN <<Head(docs)>> \o Subsequence(Tail(docs), keep)
         ELSE Subsequence(Tail(docs), keep)

BulkListed == bulk.pc # "idle" /\ bulk.listed

\* the documents of the account that satisfy the criteria given to bulkSync
SatisfiesCriteria(doc) ==
    /\ InCategory(bulk.remote, parseDocumentFilter(bulk.options), doc)
    /\ Has(bulk.options, "query") => MatchesQuery(bulk.remote, doc)
    /\ Has(bulk.options, "label") => Labelled(doc, bulk.options.label)

\* C16: whatever the criteria, every document of the account that satisfies
\* them is a candidate, also when the service lists it on a later page
C16_AllPagesSelected ==
    BulkListed =>
        \A i \in 1..Len(bulk.remote.documents) :
            SatisfiesCriteria(bulk.remote.documents[i]) =>
                bulk.remote.documents[i].id \in AllIds(bulk.documents)

\* C17: every document bulkSync reconciles satisfies all the criteria given
C17_AllCriteriaHold ==
    BulkListed =>
        \A i \in 1..Len(bulk.attempted) :
            \E j \in 1..Len(bulk.remote.documents) :
                /\ bulk.remote.documents[j].id = bulk.attempted[i]
                /\ SatisfiesCriteria(bulk.remote.documents[j])

(***************************************************************************)
(* Properties of the batch loop (checked under SpecBulk)                   *)
(***************************************************************************)
\* the ids of the first n candidates, in order
CandidateIds(n) == [i \in 1..n |-> bulk.documents[i].id]

\* one document at a time: while document i is synced the documents before it
\* have finished every step, and its PDF is generated only after its own sync
OneAtATime ==
    /\ bulk.pc = "sync" =>
          /\ bulk.index \in 1..Len(bulk.documents)
          /\ bulk.attempted = CandidateIds(bulk.index - 1)
          /\ bulk.completed = CandidateIds(bulk.index - 1)
    /\ bulk.pc = "generate" =>
          /\ bulk.index \in 1..Len(bulk.documents)
          /\ bulk.attempted = CandidateIds(bulk.index)
          /\ bulk.completed = CandidateIds(bulk.index - 1)
          /\ last.cmd = "sync" /\ last.exit = 0
          /\ last.document = bulk.documents[bulk.index].id

\* C18: the documents are processed one at a time in list order, and when
\* bulkSync ends each candidate has been reconciled exactly once
C18_SequentialExactlyOnce ==
    /\ OneAtATime
    /\ BulkEnded =>
          \A i \in 1..Len(bulk.documents) :
              Cardinality({j \in 1..Len(bulk.attempted) :
                              bulk.attempted[j] = bulk.documents[i].id}) = 1

(***************************************************************************)
(* Properties of bulkUpload (checked under SpecUpload)                     *)
(***************************************************************************)
BulkUploading == bulk.pc \in {"upload", "done"}

\* the runs of the upload command that made a remote call
RemoteUploads == {i \in 1..Len(bulk.uploads) : bulk.uploads[i].calls # <<>>}

\* C11: once a remote call of a batch has failed with 401, no remote call is
\* made for any later document of the batch
C11_UnauthorizedEndsBatch ==
    BulkUploading =>
        \A i, j \in RemoteUploads : i < j => bulk.uploads[i].status # 401

\* C19: no remote upload starts unless the delay has been waited since the
\* previous remote upload, whether that one succeeded or failed
C19_DelayBetweenUploads ==
    BulkUploading =>
        \A i, j \in RemoteUploads : i < j => bulk.uploads[j].waited

(***************************************************************************)
(* Properties of the sync command, continued (checked under Spec)          *)
(***************************************************************************)
\* the store as it would be had the record file never been written
WithoutRecord == [files EXCEPT ![RecordFile] = AbsentFile]

\* C21: a sync that finds a record file which does not parse does not fail,
\* and the record it writes is the record a first sync of the same snapshot
\* (no record file at all) writes
C21_CorruptIsAbsent ==
    [][(last'.cmd = "sync" /\ last'.snapshot.document.ok
        /\ files[RecordFile].kind = "corrupt") =>
         /\ last'.exit = 0 /\ last'.wrote
         /\ files'[RecordFile].kind = "json"
         /\ files'[RecordFile] =
               syncDocuments(WithoutRecord, images, SyncDoc, last'.snapshot).files[RecordFile]
         /\ DOMAIN files'[RecordFile].data.userData = {"labels", "author"}]_vars

\* a sync found an unparseable record and wrote a fresh one over it
C21_Witness ==
    /\ Synced /\ last.found = "corrupt"
    /\ files[RecordFile].kind = "json"
    /\ Record.userData.author = DefaultAuthor
    /\ Record.userData.labels = <<>>
    /\ Record.title = TitleOf(SyncDoc)

(***************************************************************************)
(* Properties of the upload command (checked under SpecCycle)              *)
(***************************************************************************)
\* the step is a run of the upload command for a document
UploadedNext == last'.cmd = "upload"

\* C22: once an upload for a document has created a PDF element and written
\* its id back, every later upload for the document that reaches the service,
\* whatever syncs ran in between, calls updatePDF with that id and creates no
\* further element
C22_CreateThenUpdate ==
    [][(UploadedNext /\ last.written[last'.document] # "" /\ last'.calls # <<>>) =>
         /\ last'.calls[1].op = "updatePDF"
         /\ last'.calls[1].element = last.written[last'.document]
         /\ last'.created = last.created]_vars

(***************************************************************************)
(* Properties of the slug (checked under SpecSlug)                         *)
(***************************************************************************)
OnlySafeChars(name) == \A i \in 1..Len(name) : name[i] \in SafeChars

\* C23: the name derived from a title holds only characters of [a-z0-9-],
\* deriving a name from it again changes nothing, and sync's record file name,
\* generateFilenameFromTitle and upload's PDF name are the same for one title
C23_SlugSafeIdempotentShared ==
    last.cmd = "slug" =>
        /\ OnlySafeChars(last.syncName)
        /\ OnlySafeChars(last.generateName)
        /\ OnlySafeChars(last.uploadName)
        /\ last.again = last.syncName
        /\ last.generateName = last.syncName
        /\ last.uploadName = last.syncName

\* a title of a space, a tab and an upper-case letter became "-a" everywhere
C23_Witness ==
    /\ last.cmd = "slug"
    /\ last.title = <<" ", "\t", "A">>
    /\ last.syncName = <<"-", "a">>
    /\ last.uploadName = <<"-", "a">>

(***************************************************************************)
(* Properties of the list command (checked under SpecListCmd)              *)
(***************************************************************************)
\* C24: every page size listDocuments asks for is an integer from 1 to 20,
\* whatever text was given as --limit
C24_LimitInRange ==
    last.cmd = "list" =>
        \A i \in 1..Len(last.requested) :
            last.requested[i] \in {Num(n) : n \in 1..20}

(***************************************************************************)
(* Properties of getAllDocuments (checked under SpecPages)                 *)
(***************************************************************************)
\* the items of the pages 1..n of a listing, in page order
RECURSIVE ItemsOfPages(_, _)
ItemsOfPages(listing, n) ==
    IF n = 0 THEN <<>> ELSE ItemsOfPages(listing, n - 1) \o listing[n].items

\* C25: against a listing of finitely many pages whose last page has no next
\* URL, getAllDocuments makes no more requests than there are pages, so it
\* ends, and what it returns is the items of all the pages, each once, in
\* page order
C25_AllPagesOnce ==
    bulk.pc \in {"loop", "done"} =>
        /\ bulk.calls <= Len(bulk.remote)
        /\ bulk.pc = "done" =>
              bulk.allDocuments = ItemsOfPages(bulk.remote, Len(bulk.remote))

(***************************************************************************)
(* Properties of the sync command, continued (checked under Spec)          *)
(***************************************************************************)
\* C26: after a sync, userData holds no key the sync writes as an API-owned
\* top-level field: in particular onshapeUrl and mainWorkspaceId of an earlier
\* sync are not copied into userData
C26_UserDataIsUserOwned ==
    Synced =>
        /\ ~Has(Record.userData, "onshapeUrl")
        /\ ~Has(Record.userData, "mainWorkspaceId")

(***************************************************************************)
(* Properties of bulkUpload over a synced store (checked under             *)
(* SpecStoreUpload)                                                        *)
(***************************************************************************)
\* the record file f of store fs has userData.skipPdfUpload = true
Flagged(fs, f) ==
    /\ fs[f].kind = "json"
    /\ "userData" \in DOMAIN fs[f].data
    /\ "skipPdfUpload" \in DOMAIN fs[f].data.userData
    /\ fs[f].data.userData.skipPdfUpload = TRUE

\* the step ran the upload command for the record file the loop is at
RanUploadNext == bulk.pc = "upload" /\ Len(bulk'.uploads) > Len(bulk.uploads)

\* the upload command takes up the visited record: label, PDF and flag allow it
VisitedAllowsUpload ==
    LET visited == bulk.jsonFiles[bulk.index]
    IN /\ files[visited].kind = "json"
       /\ ("label" \in DOMAIN bulk.options) =>
             InSeq(JStr(bulk.options.label), files[visited].data.labels)
       /\ visited \in pdfs
       /\ ~Flagged(files, visited)

\* the record the upload command reads, and whose PDF it sends, is not flagged
UploadedNotFlagged ==
    LET attempt == bulk'.uploads[Len(bulk'.uploads)]
        used == FindRecord(files, readdirSync(files), attempt.document)
    IN attempt.calls # <<>> => ~Flagged(files, used[1])

\* a sync leaves the flag in every record that has it
FlagSurvivesSync ==
    (last'.cmd = "sync" /\ bulk' = bulk) =>
        \A f \in FileNames : Flagged(files, f) => Flagged(files', f)

\* C27: bulkUpload runs the upload command for a record only if the record has
\* the requested label (when one is given), a PDF named like the record file
\* exists and userData.skipPdfUpload is not true; no record with the flag is
\* uploaded; and a sync leaves the flag in every record that has it
C27_SkipFlagRespected ==
    [][/\ RanUploadNext => (VisitedAllowsUpload /\ UploadedNotFlagged)
       /\ FlagSurvivesSync]_vars

(***************************************************************************)
(* Properties of bulkUpload, continued (checked under SpecUpload)          *)
(***************************************************************************)
\* the record file the loop is at parses and lacks the requested label
ExcludedByLabel ==
    LET f == bulk.jsonFiles[bulk.index]
    IN /\ files[f].kind = "json"
       /\ "label" \in DOMAIN bulk.options
       /\ ~("labels" \in DOMAIN files[f].data
            /\ \E i \in 1..Len(files[f].data.labels) :
                  files[f].data.labels[i] = JStr(bulk.options.label))

\* C28: every iteration of the loop, whatever happened to the files before,
\* goes on to the next record file until the last; it counts the file it is
\* at in neither counter when the label filter excludes it, and otherwise in
\* exactly one of uploaded and skipped
C28_EveryFileCountedOnce ==
    [][bulk.pc = "upload" =>
         LET uploaded == bulk'.uploadCount - bulk.uploadCount
             skipped == bulk'.skippedCount - bulk.skippedCount
         IN /\ uploaded \in {0, 1} /\ skipped \in {0, 1}
            /\ uploaded + skipped = (IF ExcludedByLabel THEN 0 ELSE 1)
            /\ IF bulk.index < Len(bulk.jsonFiles)
               THEN bulk'.pc = "upload" /\ bulk'.index = bulk.index + 1
               ELSE bulk'.pc = "done"
            /\ bulk'.jsonFiles = bulk.jsonFiles]_vars

\* the upload of the first of two files failed at the service, the second was
\* uploaded: one skipped, one uploaded
C28_Witness ==
    /\ bulk.pc = "done" /\ Len(bulk.jsonFiles) = 2
    /\ Len(bulk.uploads) = 2
    /\ bulk.uploads[1].status = 500 /\ bulk.uploads[2].status = 200
    /\ bulk.uploadCount = 1 /\ bulk.skippedCount = 1

(***************************************************************************)
(* Properties of the upload command, continued (checked under SpecCycle)   *)
(***************************************************************************)
\* the record files of the store that hold the documentId
RecordsOf(d) ==
    {f \in FileNames : files[f].kind = "json" /\ files[f].data.documentId = d}

WorkspaceGiven == "workspace" \in DOMAIN last'.options

\* C29: an upload makes a remote call only if a record with the documentId
\* exists, the PDF named after its title exists, and a workspace id is there:
\* the call uses the -w option when given, else the record's top-level
\* mainWorkspaceId; when a record exists but neither workspace does, the upload
\* fails without a remote call and leaves the store as it was
C29_UploadPreconditions ==
    [][UploadedNext =>
         /\ last'.calls # <<>> =>
               \E f \in RecordsOf(last'.document) :
                  /\ generateFilenameFromTitle(files[f].data.title) \in pdfs
                  /\ WorkspaceGiven \/ "mainWorkspaceId" \in DOMAIN files[f].data
                  /\ last'.calls[1].workspace =
                        (IF WorkspaceGiven THEN last'.options.workspace
                         ELSE files[f].data.mainWorkspaceId)
         /\ (/\ ~WorkspaceGiven
             /\ \A f \in RecordsOf(last'.document) :
                   ~("mainWorkspaceId" \in DOMAIN files[f].data)) =>
               /\ last'.calls = <<>>
               /\ last'.exit = 1
               /\ files' = files]_vars

\* an upload without -w for a document whose record has a PDF but, its sync
\* having failed to resolve the workspace, no mainWorkspaceId: it failed
C29_Witness ==
    /\ last.cmd = "upload" /\ last.exit = 1 /\ last.calls = <<>>
    /\ ~("workspace" \in DOMAIN last.options)
    /\ RecordsOf(last.document) # {}
    /\ \A f \in RecordsOf(last.document) :
          /\ ~("mainWorkspaceId" \in DOMAIN files[f].data)
          /\ generateFilenameFromTitle(files[f].data.title) \in pdfs

\* the upload created an element and the service answered with its id
CreatedNext ==
    /\ last'.calls # <<>> /\ last'.calls[1].op = "uploadPDF"
    /\ last'.exit = 0
    /\ last'.created = last.created + 1

\* record file f was changed in userData.pdfElementId and nowhere else
OnlyPdfElementIdSet(f) ==
    LET before == files[f].data
        after == files'[f].data
        userBefore == IF "userData" \in DOMAIN before THEN before.userData ELSE EmptyObj
    IN /\ files[f].kind = "json" /\ files'[f].kind = "json"
       /\ before.documentId = last'.document
       /\ DOMAIN after = DOMAIN before \cup {"userData"}
       /\ \A k \in DOMAIN before \ {"userData"} : after[k] = before[k]
       /\ DOMAIN after.userData = DOMAIN userBefore \cup {"pdfElementId"}
       /\ \A k \in DOMAIN userBefore \ {"pdfElementId"} : after.userData[k] = userBefore[k]
       /\ after.userData.pdfElementId = ElementId(last'.created)

\* C30: an upload changes the store only after a successful create, and then
\* only by setting userData.pdfElementId of the document's record to the id
\* the service returned; an update and every failed upload leave every record
\* file as it was, and no upload touches the images or the PDFs
C30_UploadWritesOnlyElementId ==
    [][UploadedNext =>
         /\ images' = images /\ pdfs' = pdfs
         /\ ~CreatedNext => files' = files
         /\ \A f \in FileNames : files'[f] = files[f] \/ OnlyPdfElementIdSet(f)
         /\ \A f, g \in FileNames : (files'[f] # files[f] /\ files'[g] # files[g]) => f = g]_vars

\* the record in which the user had set skipPdfUpload was uploaded: it now
\* holds the id of the created element next to the flag and the author
C30_Witness ==
    /\ last.cmd = "upload" /\ last.exit = 0
    /\ last.calls # <<>> /\ last.calls[1].op = "uploadPDF"
    /\ \E f \in RecordsOf(last.document) :
          /\ "pdfElementId" \in DOMAIN files[f].data.userData
          /\ files[f].data.userData.pdfElementId = last.written[last.document]
          /\ "skipPdfUpload" \in DOMAIN files[f].data.userData
          /\ files[f].data.userData.author = DefaultAuthor

====
